---- MODULE Spec2Model ----
(***************************************************************************)
(* A model of the API key management library: the service-account table    *)
(* (sa_info), the api-key table, and the handlers of KeyManagerService     *)
(* (createApiKey, validateKey, updateApiKey, removeKey, listKeys) together *)
(* with the KeyGenerationService and KeyValidationService they call.       *)
(*                                                                         *)
(* A handler is an async function: a request runs its synchronous code up  *)
(* to the store call it awaits, and each store call takes effect in a step *)
(* of its own, followed by the synchronous code up to the next await or to *)
(* the response.  Between two steps of a request other requests, the clock *)
(* and the operator of the store take steps.                               *)
(*                                                                         *)
(* Time is counted in days.  Row ids are the row's position in its table   *)
(* (rows are never physically removed).  Random 32-byte draws are choices  *)
(* from a small set of tokens, so that collisions happen.                  *)
(***************************************************************************)
EXTENDS Integers, Sequences, FiniteSets, TLC

VARIABLES
    saInfo,            \* the sa_info table: a sequence of service-account rows
    apiKeys,           \* the api_keys table: a sequence of api-key rows
    now,               \* the wall clock read by new Date()
    resp,              \* what the last handler call returned or threw
    nops,              \* number of events so far: requests, clock ticks
    uniqueConstraint,  \* whether the store enforces UNIQUE(api_key)
    checkedAt,         \* per api-key row: size of the table when its token was checked
    config,            \* KeyGenerationService.config
    pc,                \* per caller: the store call its request awaits, or idle, done
    loc                \* per caller: the local variables of its request

vars == <<saInfo, apiKeys, now, resp, nops, uniqueConstraint, checkedAt, config, pc, loc>>

store == <<saInfo, apiKeys>>

(***************************************************************************)
(* Bounds of the model.                                                    *)
(***************************************************************************)
MaxOps == 3
MaxConcOps == 2

(***************************************************************************)
(* Program constants.                                                      *)
(***************************************************************************)
\* KeyGenerationService.config as constructed (lines 38-43)
defaultConfig ==
    [saltRounds |-> 12, maxRetries |-> 3, keyPrefix |-> "ak_", defaultExpiryDays |-> 365]
UNAUTHORIZED == 401
BAD_REQUEST == 400
NOT_FOUND == 404
INTERNAL_SERVER_ERROR == 500
FORBIDDEN == 403
OK == 200
maxLimit == 100
defaultLimit == 10

NoDate == -1          \* a null Date column / a null expiresAt
Absent == -1          \* expires_at omitted, null or empty (falsy)
InvalidDate == -2     \* expires_at that new Date() parses to NaN
NotADate == -3        \* an expiresAt that is neither a Date object nor null
NoRow == 0            \* findOne found nothing
MissingId == 0        \* an empty or undefined :id
NoClient == 0         \* no client_id filter

NoText == ""          \* description omitted
EmptyKey == ""        \* an api_key argument that is '' or undefined
BlankKey == " "       \* an api_key argument of blanks only

UserSeq == <<1, 2>>
NameSeq == <<"n1", "n2">>
allowedSortColumns == {"created_at", "updated_at", "expiry_date", "name", "is_active"}
Users == {UserSeq[i] : i \in DOMAIN UserSeq}
Names == {NameSeq[i] : i \in DOMAIN NameSeq}
Actors == {"key-manager-service", "admin"}
Procs == {1, 2}

\* the values crypto.randomBytes(32).toString('base64') can give, in a fixed order
TokenSeq == <<"k1", "k2", "k3", "k4", "k5">>
SecretSeq == <<"s1", "s2", "s3", "s4">>
Tokens == {TokenSeq[i] : i \in DOMAIN TokenSeq}
Secrets == {SecretSeq[i] : i \in DOMAIN SecretSeq}

(***************************************************************************)
(* Rows and store queries.                                                 *)
(***************************************************************************)
\* the message of the HttpException a handler throws with the code
exceptionMessage(code) ==
    CASE code = "INVALID_EXPIRY_DATE" -> "expires_at must be a valid ISO date string"
      [] code = "EXPIRY_DATE_PAST" -> "expires_at must be in the future"
      [] code = "SERVICE_ACCOUNT_DELETED" -> "Service account has been deleted"
      [] code \in {"INVALID_CLIENT_ID", "INVALID_CLIENT_SECRET"}
         -> "Invalid client credentials"
      [] code = "MISSING_KEY_ID" -> "Key ID is required"
      [] code = "MISSING_UPDATE_FIELDS"
         -> "At least one field (name, description, expires_at, or is_active) must be provided"
      [] code = "KEY_NOT_FOUND" -> "API key not found"
      [] code = "KEY_ALREADY_DELETED" -> "API key already deleted"

\* the message of the error a rejecting store call throws: the driver's words
storeFailure == "store call rejected"

Fail(op, code, http) ==
    [op |-> op, success |-> FALSE, code |-> code, http |-> http, data |-> <<>>]

\* validateKey lines 252-267: the body thrown when the key validation fails
ValidationFailed(reason, statusCode) ==
    [op |-> "validateKey", success |-> FALSE, code |-> reason, http |-> statusCode,
     data |-> [api_key |-> "***masked***", validation_failed_reason |-> reason]]

Success(op, code, data) ==
    [op |-> op, success |-> TRUE, code |-> code, http |-> OK, data |-> data]

\* saInfoRepo.create({user_id, client_secret, description, created_by}) + save
NewSaInfo(id, user_id, clientSecret, description) ==
    [id |-> id, user_id |-> user_id, client_secret |-> clientSecret,
     description |-> description, created_by |-> "key-manager-service",
     deleted_at |-> NoDate, deleted_by |-> ""]

\* a lookup that finds no account
SaByUserNone(sa, user_id) ==
    {}

\* saInfoRepo.findOne({where: {user_id, deleted_at: IsNull()}}): the candidates
SaByUser(sa, user_id) ==
    {i \in DOMAIN sa : sa[i].user_id = user_id /\ sa[i].deleted_at = NoDate}

\* a lookup by id alone, soft-deleted accounts included
SaByIdAny(sa, client_id) ==
    IF \E i \in DOMAIN sa : sa[i].id = client_id
    THEN CHOOSE i \in DOMAIN sa : sa[i].id = client_id
    ELSE NoRow

\* saInfoRepo.findOne({where: {id: client_id, deleted_at: IsNull()}})
SaById(sa, client_id) ==
    IF \E i \in DOMAIN sa : sa[i].id = client_id /\ sa[i].deleted_at = NoDate
    THEN CHOOSE i \in DOMAIN sa : sa[i].id = client_id /\ sa[i].deleted_at = NoDate
    ELSE NoRow

\* apiKeyRepo.findOne({where: {id: parseInt(id)}})
KeyById(keys, id) ==
    IF id \in DOMAIN keys THEN id ELSE NoRow


(***************************************************************************)
(* KeyGenerationService.                                                   *)
(***************************************************************************)
\* a lookup that skips soft-deleted rows
checkKeyExistsNotDeleted(keys, apiKey) ==
    \E i \in DOMAIN keys : keys[i].api_key = apiKey /\ keys[i].deleted_at = NoDate

\* a lookup whose result is dropped
checkKeyExistsNever(keys, apiKey) ==
    FALSE

\* checkKeyExists: findOne({where: {api_key}}), not scoped by deleted_at
checkKeyExists(keys, apiKey) ==
    \E i \in DOMAIN keys : keys[i].api_key = apiKey

\* createKeyRecord lines 144-152: the entity built before the save is awaited; the
\* default expiry is computed here, from the clock and the configuration
KeyEntity(cfg, t, apiKey, userId, name, description, isActive, expiresAt) ==
    [name |-> name,
     client_id |-> userId,
     api_key |-> apiKey,
     expiry_date |-> IF expiresAt # NoDate THEN expiresAt ELSE t + cfg.defaultExpiryDays,
     is_active |-> isActive,
     created_by |-> "key-generation-service",
     description |-> IF description # NoText THEN description
                     ELSE "Generated API key for client " \o ToString(userId)]

\* apiKeyRepository.save(entity), line 155: the row inserted, with the id and the
\* created_at the store gives it at the insert
SavedKey(entity, id, t) ==
    [id |-> id,
     name |-> entity.name,
     client_id |-> entity.client_id,
     api_key |-> entity.api_key,
     expiry_date |-> entity.expiry_date,
     is_active |-> entity.is_active,
     created_by |-> entity.created_by,
     description |-> entity.description,
     created_at |-> t,
     updated_by |-> "",
     deleted_at |-> NoDate,
     deleted_by |-> ""]

\* the insert, which a UNIQUE(api_key) constraint of the store rejects when the
\* token is already stored
SaveRejected(keys, uc, apiKey) ==
    uc /\ \E i \in DOMAIN keys : keys[i].api_key = apiKey

\* validateGenerationInput: the error it throws, or "".  A client id is a string
\* (sa_info.id), written here as its number; NoClient stands for every userId that
\* is not a string with a character other than blanks.  A Date whose time is NaN
\* (InvalidDate) is a Date object and compares false with every date, so it passes
validateGenerationInput(t, userId, expiresAt) ==
    IF userId = NoClient
    THEN "Client ID is required and must be a non-empty string"
    ELSE IF expiresAt = NoDate THEN ""
    ELSE IF expiresAt = NotADate
    THEN "Expiry date must be a Date object or null"
    ELSE IF expiresAt # InvalidDate /\ expiresAt <= t
    THEN "Expiry date must be in the future"
    ELSE ""

\* generateUniqueKey lines 103-112: what it returns once the record is saved
UniqueKeyResult(rawKey, row) ==
    [rawKey |-> rawKey,
     keyRecord |-> [id |-> row.id,
                    userId |-> row.client_id,
                    createdAt |-> row.created_at,
                    expiresAt |-> row.expiry_date,
                    status |-> IF row.is_active THEN "active" ELSE "inactive"]]

\* generateApiKey lines 230-237: what it returns, from generateUniqueKey's result
GenerationResult(rawKey, row) ==
    LET result == UniqueKeyResult(rawKey, row) IN
    [keyId |-> result.keyRecord.id,
     rawKey |-> result.rawKey,
     userId |-> result.keyRecord.userId,
     createdAt |-> result.keyRecord.createdAt,
     expiresAt |-> result.keyRecord.expiresAt,
     status |-> result.keyRecord.status]

\* line 88: while (attempt < this.config.maxRetries), read at every turn
budgetLeft(cfg, attempt) ==
    attempt < cfg.maxRetries

\* line 127: the message of the error thrown when the budget is used up
exhaustedMessage(cfg) ==
    "Failed to generate unique key after " \o ToString(cfg.maxRetries) \o " attempts"

\* a catch that swallows the error, so that the loop goes on
rethrowsNever(call) ==
    FALSE

\* lines 119-123: the catch inside the loop rethrows what a store call threw
rethrows(call) ==
    call \in {"api_keys.findOne", "api_keys.save"}

\* lines 73 and 164: the line logged when a store call of the generator rejects
storeCallLine(call) ==
    IF call = "api_keys.findOne" THEN "Collision check failed"
    ELSE "Failed to create key record"

\* lines 74 and 165: the message of the error a rejecting store call of the
\* generator becomes; errorMessage is the message of the store's error
storeCallError(call, errorMessage) ==
    storeCallLine(call) \o ": " \o errorMessage

(***************************************************************************)
(* Log and audit events.  An event is a message and named fields; a field  *)
(* value is text, a sequence of symbols: <<key, i>> is character i of an   *)
(* api_key value, <<v, 0>> stands for the whole of another value.  Times   *)
(* of day, durations and endpoint names are left out of the fields.        *)
(***************************************************************************)
KeyLength == 44
PrefixLength == 8
ShortKey == "abc"

\* the characters of an api_key value: generateRawKey returns 32 random bytes in
\* base64, a caller of validateKey may send any string
Characters(key) ==
    IF key = EmptyKey THEN <<>>
    ELSE IF key = BlankKey THEN <<<<key, 1>>>>
    ELSE IF key = ShortKey THEN [i \in 1 .. 3 |-> <<key, i>>]
    ELSE [i \in 1 .. KeyLength |-> <<key, i>>]

MaskMarker == [i \in 1 .. 3 |-> <<"*", 0>>]
NoTexts == [x \in {} |-> <<>>]
NoDetails == [x \in {} |-> 0]

Max(a, b) == IF a >= b THEN a ELSE b
Min(a, b) == IF a <= b THEN a ELSE b

\* String.prototype.substring(start, end)
substring(text, start, end) == SubSeq(text, start + 1, Min(end, Len(text)))

\* a prefix that is the whole value
keyPrefixWhole(keyToValidate) ==
    Characters(keyToValidate) \o MaskMarker

\* keyToValidate.substring(0, 8) + '***'
keyPrefix(keyToValidate) ==
    substring(Characters(keyToValidate), 0, PrefixLength) \o MaskMarker

Event(message, payload, texts) ==
    [message |-> message,
     fields |-> {<<n, <<<<ToString(payload[n]), 0>>>>>> : n \in DOMAIN payload}
                \cup {<<n, texts[n]>> : n \in DOMAIN texts}]

\* logKeyGeneration lines 176-187: the record logged; details are spread last
logKeyGeneration(cfg, keyId, userId, result, t, details) ==
    Event("Key generation operation",
          details @@ [operation_type |-> "create",
                      key_id |-> keyId,
                      user_id |-> userId,
                      result |-> result,
                      timestamp |-> t,
                      bcrypt_rounds |-> cfg.saltRounds], NoTexts)

\* line 117: logger.info('Key collision detected, retrying', { attempt, userId })
collisionLine(attempt, userId) ==
    Event("Key collision detected, retrying", [attempt |-> attempt, userId |-> userId],
          NoTexts)

\* the event of a handler's catch block: the operation, failed, with the error
Caught(operation, payload, error) ==
    Event(operation, payload @@ [success |-> FALSE, error |-> error], NoTexts)

(***************************************************************************)
(* KeyValidationService.                                                   *)
(***************************************************************************)
\* a lookup that does not filter on is_active
activeKeysAnyStatus(keys, clientId) ==
    {i \in DOMAIN keys : keys[i].client_id = clientId}

\* a lookup that is not scoped to the client
activeKeysAnyClient(keys, clientId) ==
    {i \in DOMAIN keys : keys[i].is_active}

\* apiKeyRepository.find({where: {is_active: true, client_id}}): the row ids, in
\* table order; lines 48-50 add the client_id condition only when a clientId is
\* given (NoClient: undefined or '')
activeKeys(keys, clientId) ==
    {i \in DOMAIN keys :
        /\ keys[i].is_active
        /\ clientId = NoClient \/ keys[i].client_id = clientId}

\* line 52: what find may answer, as sequences of row ids. The query has no order
\* option, so the store answers in any order; the scan of lines 57-63 depends on the
\* first matching row only, so one order stands for all that begin with the same
\* row: that row, then the others by id
findAnswers(keys, clientId) ==
    LET rows == activeKeys(keys, clientId)
        ascending(S) ==
            [k \in 1 .. Cardinality(S) |->
                CHOOSE i \in S : Cardinality({j \in S : j < i}) = k - 1]
    IN  IF rows = {} THEN {<<>>}
        ELSE {<<first>> \o ascending(rows \ {first}) : first \in rows}

\* lines 54-63: the scan for (keyToValidate === record.api_key) over the rows find
\* answered, in the order it answered them: the first match, or NoRow
keyRecord(found, keys, keyToValidate) ==
    LET hits == {k \in DOMAIN found : keys[found[k]].api_key = keyToValidate}
    IN  IF hits = {} THEN NoRow
        ELSE found[CHOOSE k \in hits : \A j \in hits : k <= j]

\* an expiry test with a strict comparison: a key expiring now is still valid
validateExpirationStrict(expiresAt, t) ==
    IF expiresAt = NoDate
    THEN [isValid |-> TRUE, reason |-> "NO_EXPIRY", message |-> "Key has no expiration date"]
    ELSE IF expiresAt < t
    THEN [isValid |-> FALSE, reason |-> "KEY_EXPIRED",
          message |-> "API key expired on " \o ToString(expiresAt)]
    ELSE [isValid |-> TRUE, reason |-> "NOT_EXPIRED",
          message |-> "Key is within expiration date"]

\* validateExpiration
validateExpiration(expiresAt, t) ==
    IF expiresAt = NoDate
    THEN [isValid |-> TRUE, reason |-> "NO_EXPIRY", message |-> "Key has no expiration date"]
    ELSE IF expiresAt <= t
    THEN [isValid |-> FALSE, reason |-> "KEY_EXPIRED",
          message |-> "API key expired on " \o ToString(expiresAt)]
    ELSE [isValid |-> TRUE, reason |-> "NOT_EXPIRED",
          message |-> "Key is within expiration date"]

\* line 34: !keyToValidate?.trim()
isBlank(keyToValidate) == keyToValidate \in {EmptyKey, BlankKey}

\* createFailureResult(reason, message, statusCode)
createFailureResult(reason, message, statusCode) ==
    [isValid |-> FALSE, reason |-> reason, message |-> message, statusCode |-> statusCode]

\* validateApiKey: a failure is [isValid, reason, message, statusCode], a success
\* [isValid, message, statusCode, keyInfo]; found is what find answered (not awaited
\* for a blank key)
validateApiKey(keys, t, keyToValidate, clientId, found) ==
    IF isBlank(keyToValidate)
    THEN \* createFailureResult('INVALID_FORMAT', message, startTime): the start time
         \* lands in the statusCode parameter
         createFailureResult("INVALID_FORMAT", "API key cannot be empty", t)
    ELSE LET r == keyRecord(found, keys, keyToValidate) IN
         IF r = NoRow
         THEN createFailureResult("KEY_NOT_FOUND", "Invalid API key or client credentials",
                                  NOT_FOUND)
         ELSE IF ~keys[r].is_active
         THEN createFailureResult("KEY_INACTIVE", "API key is not active", FORBIDDEN)
         ELSE LET e == validateExpiration(keys[r].expiry_date, t) IN
              IF ~e.isValid
              THEN createFailureResult(e.reason, e.message, UNAUTHORIZED)
              ELSE [isValid |-> TRUE, message |-> "API key validation successful",
                    statusCode |-> OK,
                    keyInfo |-> [id |-> keys[r].id,
                                 userId |-> keys[r].client_id,
                                 expiresAt |-> keys[r].expiry_date,
                                 status |-> IF keys[r].is_active THEN "active"
                                            ELSE "inactive"]]

\* validateApiKey when apiKeyRepository.find rejects: the catch of lines 117-126
validateApiKeyStoreFailure ==
    createFailureResult("VALIDATION_ERROR", "Internal validation error",
                        INTERNAL_SERVER_ERROR)

\* logValidation lines 167-190
logValidation(keyId, action, result, metadata, texts) ==
    Event("Key validation audit log",
          metadata @@ [keyId |-> keyId, action |-> action, result |-> result], texts)

\* the events of validateApiKey once find has answered with the rows found
validateApiKeyEvents(keys, t, keyToValidate, clientId, found) ==
    IF isBlank(keyToValidate) THEN <<>>
    ELSE LET r == keyRecord(found, keys, keyToValidate) IN
         IF r = NoRow
         THEN <<logValidation("unknown", "validate", "failure",
                    [reason |-> "KEY_NOT_FOUND_OR_INVALID", clientId |-> clientId],
                    [keyPrefix |-> keyPrefix(keyToValidate)])>>
         ELSE IF ~keys[r].is_active
         THEN <<logValidation(keys[r].id, "validate", "failure",
                    [reason |-> "KEY_INACTIVE", clientId |-> clientId,
                     status |-> keys[r].is_active], NoTexts)>>
         ELSE LET e == validateExpiration(keys[r].expiry_date, t) IN
              IF ~e.isValid
              THEN <<logValidation(keys[r].id, "validate", "failure",
                         [reason |-> e.reason, clientId |-> clientId,
                          expiresAt |-> keys[r].expiry_date], NoTexts)>>
              ELSE <<logValidation(keys[r].id, "validate", "success",
                         [clientId |-> clientId], NoTexts)>>

\* the event of validateApiKey when apiKeyRepository.find rejects (lines 117-123);
\* the stack of the error is the driver's, as its message is
validateApiKeyStoreFailureEvents(keyToValidate, clientId) ==
    <<Event("Key validation error",
            [error |-> storeFailure, stack |-> "stack of " \o storeFailure,
             clientId |-> clientId],
            [keyPrefix |-> keyPrefix(keyToValidate)])>>

(***************************************************************************)
(* KeyManagerService: the checks and the payloads of the handlers.         *)
(***************************************************************************)
\* the check with a strict comparison: now itself passes
CheckExpiresAtStrict(expires_at, t) ==
    IF expires_at = Absent THEN ""
    ELSE IF expires_at = InvalidDate THEN "INVALID_EXPIRY_DATE"
    ELSE IF expires_at < t THEN "EXPIRY_DATE_PAST"
    ELSE ""

\* createApiKey lines 47-77: the error code of the expires_at check, or ""
CheckExpiresAt(expires_at, t) ==
    IF expires_at = Absent THEN ""
    ELSE IF expires_at = InvalidDate THEN "INVALID_EXPIRY_DATE"
    ELSE IF expires_at <= t THEN "EXPIRY_DATE_PAST"
    ELSE ""

\* createApiKey lines 121-127: the parameters handed to generateApiKey
generationParams(dto, acct) ==
    [userId |-> acct.id, name |-> dto.name, description |-> dto.description,
     isActive |-> dto.is_active, expiresAt |-> dto.expires_at]

\* createApiKey lines 146-158: the success payload
CreateData(dto, acct, result) ==
    [key_id |-> result.keyId,
     raw_key |-> result.rawKey,
     user_id |-> dto.user_id,
     client_id |-> acct.id,
     client_secret |-> acct.client_secret,
     name |-> dto.name,
     description |-> dto.description,
     is_active |-> dto.is_active,
     created_at |-> result.createdAt,
     expires_at |-> result.expiresAt,
     status |-> result.status]

\* createApiKey lines 176-185: an error that is no HttpException
KeyCreationError == Fail("createApiKey", "KEY_CREATION_ERROR", INTERNAL_SERVER_ERROR)

\* a catch that undoes the save of the service account: the row of the request is
\* dropped when it is the last one, and marked deleted otherwise
saInfoAfterCatchRolledBack(sa, saved) ==
    IF saved = NoRow THEN sa
    ELSE IF saved = Len(sa) THEN SubSeq(sa, 1, Len(sa) - 1)
    ELSE [sa EXCEPT ![saved].deleted_at = 0, ![saved].deleted_by = "rollback"]

\* createApiKey lines 161-185: the catch logs and rethrows; the sa_info table keeps
\* the row the request saved (saved, or NoRow) before the error
saInfoAfterCatch(sa, saved) ==
    sa

\* a comparison that is never made
SecretMatchesAlways(acct, client_secret) ==
    TRUE

\* validateKey step 2: the stored secret against the presented one
SecretMatches(acct, client_secret) ==
    acct.client_secret = client_secret

\* validateKey lines 280-286: the success payload, from the account read first and
\* the key validateApiKey found
ValidData(acct, keyInfo) ==
    [key_id |-> keyInfo.id,
     user_id |-> acct.user_id,
     client_id |-> acct.id,
     expires_at |-> keyInfo.expiresAt,
     status |-> keyInfo.status]

\* updateApiKey lines 391-421: the error code of the expires_at check, or "";
\* new Date(null) is the epoch, which is never after now
CheckUpdateExpiresAt(expires_at, t) ==
    IF expires_at = InvalidDate THEN "INVALID_EXPIRY_DATE"
    ELSE IF expires_at = Absent THEN "EXPIRY_DATE_PAST"
    ELSE IF expires_at <= t THEN "EXPIRY_DATE_PAST"
    ELSE ""

\* an update that writes every field of the request, supplied or not
ApplyUpdateAll(row, dto) ==
    [row EXCEPT !.name = dto.name, !.description = dto.description,
                !.expiry_date = dto.expires_at, !.is_active = dto.is_active,
                !.updated_by = "key-manager-service"]

\* an update that also restores a soft-deleted row
ApplyUpdateRestoring(row, dto) ==
    [row EXCEPT
        !.name = IF "name" \in dto.provided THEN dto.name ELSE @,
        !.description = IF "description" \in dto.provided THEN dto.description ELSE @,
        !.expiry_date = IF "expires_at" \in dto.provided THEN dto.expires_at ELSE @,
        !.is_active = IF "is_active" \in dto.provided THEN dto.is_active ELSE @,
        !.updated_by = "key-manager-service",
        !.deleted_at = NoDate, !.deleted_by = ""]

\* updateApiKey lines 378-432: the row after apiKeyRepo.update(id, updateData)
ApplyUpdate(row, dto) ==
    [row EXCEPT
        !.name = IF "name" \in dto.provided THEN dto.name ELSE @,
        !.description = IF "description" \in dto.provided THEN dto.description ELSE @,
        !.expiry_date = IF "expires_at" \in dto.provided THEN dto.expires_at ELSE @,
        !.is_active = IF "is_active" \in dto.provided THEN dto.is_active ELSE @,
        !.updated_by = "key-manager-service"]

\* updateApiKey lines 449-458: the success payload, from the row fetched last
UpdateData(updatedKey) ==
    [key_id |-> updatedKey.id,
     client_id |-> updatedKey.client_id,
     name |-> updatedKey.name,
     description |-> updatedKey.description,
     is_active |-> updatedKey.is_active,
     expires_at |-> updatedKey.expiry_date,
     status |-> IF updatedKey.is_active THEN "active" ELSE "inactive"]

\* a check that is never made
AlreadyDeletedNever(row) ==
    FALSE

\* removeKey line 535: if (existingKey.deleted_at)
AlreadyDeleted(row) ==
    row.deleted_at # NoDate

\* a soft delete that also blanks the stored token
SoftDeleteScrubbed(row, t, deletedBy) ==
    [row EXCEPT !.deleted_at = t, !.deleted_by = deletedBy, !.updated_by = deletedBy,
                !.api_key = ""]

\* removeKey lines 548-552: the soft delete; t is the clock read when the update is
\* issued
SoftDelete(row, t, deletedBy) ==
    [row EXCEPT !.deleted_at = t, !.deleted_by = deletedBy, !.updated_by = deletedBy]

\* removeKey lines 569-575: the success payload, from the row fetched last
RemoveData(deletedKey) ==
    [key_id |-> deletedKey.id,
     client_id |-> deletedKey.client_id,
     status |-> "deleted",
     deleted_at |-> deletedKey.deleted_at,
     deleted_by |-> deletedKey.deleted_by]

\* the status with the soft-delete test left out
listStatusIgnoringDeleted(row, t) ==
    IF ~row.is_active THEN "inactive"
    ELSE IF row.expiry_date <= t THEN "expired"
    ELSE "active"

\* the status with a strict comparison: a key expiring now is still active
listStatusStrict(row, t) ==
    IF row.deleted_at # NoDate THEN "deleted"
    ELSE IF ~row.is_active THEN "inactive"
    ELSE IF row.expiry_date < t THEN "expired"
    ELSE "active"

\* listKeys lines 699-705: the status of a listed key; a null expiry_date compares
\* as 0 in (key.expiry_date <= new Date()), as NoDate does here
listStatus(row, t) ==
    IF row.deleted_at # NoDate THEN "deleted"
    ELSE IF ~row.is_active THEN "inactive"
    ELSE IF row.expiry_date <= t THEN "expired"
    ELSE "active"

\* Math.ceil(a / b) for a >= 0, b > 0
Ceil(a, b) == (a + b - 1) \div b

\* line 618: Math.max(1, parseInt(String(query.page || 1)))
effectivePage(query) ==
    Max(1, IF "page" \in query.provided /\ query.page # 0 THEN query.page ELSE 1)

\* line 619: Math.min(100, Math.max(1, parseInt(String(query.limit || 10))))
effectiveLimit(query) ==
    Min(maxLimit, Max(1, IF "limit" \in query.provided /\ query.limit # 0
                         THEN query.limit ELSE defaultLimit))

\* the characters of the texts that names, descriptions and search terms are in the
\* model; a text is a string, a pattern is matched character by character
Chars(text) ==
    LET Spelling ==
            ("n1" :> <<"n", "1">>) @@ ("n2" :> <<"n", "2">>) @@ ("d" :> <<"d">>)
            @@ ("N1" :> <<"N", "1">>) @@ ("client" :> <<"c", "l", "i", "e", "n", "t">>)
            @@ ("_2" :> <<"_", "2">>)
        GeneratedPrefix ==
            <<"G", "e", "n", "e", "r", "a", "t", "e", "d", " ", "A", "P", "I", " ", "k",
              "e", "y", " ", "f", "o", "r", " ", "c", "l", "i", "e", "n", "t", " ">>
    IN  IF text = NoText THEN <<>>
        ELSE IF text \in DOMAIN Spelling THEN Spelling[text]
        ELSE GeneratedPrefix
             \o <<ToString(CHOOSE c \in 0 .. 9 :
                              text = "Generated API key for client " \o ToString(c))>>

\* lower-casing, character by character
Lower(chars) ==
    LET UpperLetters ==
            <<"A", "B", "C", "D", "E", "F", "G", "H", "I", "J", "K", "L", "M", "N", "O",
              "P", "Q", "R", "S", "T", "U", "V", "W", "X", "Y", "Z">>
        LowerLetters ==
            <<"a", "b", "c", "d", "e", "f", "g", "h", "i", "j", "k", "l", "m", "n", "o",
              "p", "q", "r", "s", "t", "u", "v", "w", "x", "y", "z">>
    IN  [i \in DOMAIN chars |->
            IF \E k \in DOMAIN UpperLetters : chars[i] = UpperLetters[k]
            THEN LowerLetters[CHOOSE k \in DOMAIN UpperLetters :
                                 chars[i] = UpperLetters[k]]
            ELSE chars[i]]

\* chars LIKE pattern: % stands for any run of characters, _ for any one character
\* (patterns without the escape character)
RECURSIVE Like(_, _)
Like(chars, pattern) ==
    IF pattern = <<>> THEN chars = <<>>
    ELSE IF Head(pattern) = "%"
    THEN Like(chars, Tail(pattern)) \/ (chars # <<>> /\ Like(Tail(chars), pattern))
    ELSE /\ chars # <<>>
         /\ Head(pattern) = "_" \/ Head(pattern) = Head(chars)
         /\ Like(Tail(chars), Tail(pattern))

\* lines 655-656: text ILIKE '%' + search + '%', letter case ignored
ILike(text, search) ==
    Like(Lower(Chars(text)), <<"%">> \o Lower(Chars(search)) \o <<"%">>)

\* lines 640-650: the predicate a status filter adds; a comparison with a null
\* expiry_date is not true in SQL
statusFilter(row, t, status) ==
    IF status = "active"
    THEN row.is_active /\ row.expiry_date # NoDate /\ row.expiry_date > t
    ELSE IF status \in {"inactive", "revoked"}
    THEN ~row.is_active
    ELSE IF status = "expired"
    THEN row.expiry_date # NoDate /\ row.expiry_date <= t
    ELSE TRUE

\* a listing that never hides soft-deleted rows
deletedFilterOff(row, query) ==
    TRUE

\* lines 631-633: soft-deleted rows are excluded unless include_deleted
deletedFilter(row, query) ==
    query.include_deleted \/ row.deleted_at = NoDate

\* lines 630-657: the rows the query builder's WHERE clauses select
filteredKeys(keys, t, query) ==
    {i \in DOMAIN keys :
        /\ deletedFilter(keys[i], query)
        /\ query.client_id = NoClient \/ keys[i].client_id = query.client_id
        /\ statusFilter(keys[i], t, query.status)
        /\ query.search = NoText
           \/ ILike(keys[i].name, query.search)
           \/ ILike(keys[i].description, query.search)}

\* a sort column taken from the request as it is
validSortColumnAny(query) ==
    IF query.sort_by # NoText THEN query.sort_by ELSE "created_at"

\* line 665: the column sorted by
validSortColumn(query) ==
    IF query.sort_by \in allowedSortColumns THEN query.sort_by ELSE "created_at"

\* the value a row is ordered by.  updated_at is kept by the store and has no
\* value in the model: rows come in any order under it, as they do under a column
\* the model gives no order
sortKey(row, column) ==
    IF column = "created_at" THEN row.created_at
    ELSE IF column = "expiry_date" THEN row.expiry_date
    ELSE IF column = "name" THEN CHOOSE i \in DOMAIN NameSeq : NameSeq[i] = row.name
    ELSE IF column = "is_active" THEN (IF row.is_active THEN 1 ELSE 0)
    ELSE IF column = "api_key"
    THEN CHOOSE i \in DOMAIN TokenSeq : TokenSeq[i] = row.api_key
    ELSE IF column = "client_id" THEN row.client_id
    ELSE 0

\* ORDER BY: row a does not sort after row b, ascending; NULL sorts as larger than
\* every value (last ascending, first descending)
sortsNotAfter(a, b, column) ==
    LET sortsNull(row) == column = "expiry_date" /\ row.expiry_date = NoDate
    IN  \/ sortsNull(b)
        \/ ~sortsNull(a) /\ sortKey(a, column) <= sortKey(b, column)

\* the sequences of the rows S in which no row comes before one that sorts ahead
\* of it: the first row is any of those that sort first, the rest likewise
RECURSIVE sortedSeqs(_, _, _, _)
sortedSeqs(keys, S, column, desc) ==
    IF S = {} THEN {<<>>}
    ELSE UNION {{<<x>> \o rest : rest \in sortedSeqs(keys, S \ {x}, column, desc)} :
                x \in {y \in S : \A z \in S :
                          IF desc THEN sortsNotAfter(keys[z], keys[y], column)
                          ELSE sortsNotAfter(keys[y], keys[z], column)}}

\* line 666: the orders ORDER BY column direction allows for the rows S; rows
\* with equal sort values come in any order
sortedOrders(keys, S, query) ==
    sortedSeqs(keys, S, validSortColumn(query), query.sort_order \in {NoText, "DESC"})

\* a page cut one row short
pageOfShort(order, page, limit) ==
    LET skip == (page - 1) * limit
        n == Min(limit - 1, Max(0, Len(order) - skip))
    IN  [k \in 1 .. n |-> order[skip + k]]

\* line 669: skip((page - 1) * limit).take(limit) of the ordered rows
pageOf(order, page, limit) ==
    LET skip == (page - 1) * limit
        n == Min(limit, Max(0, Len(order) - skip))
    IN  [k \in 1 .. n |-> order[skip + k]]

\* leftJoinAndSelect('api_key.service_account'): the secret of the joined account
joinedSecret(sa, row) ==
    IF \E i \in DOMAIN sa : sa[i].id = row.client_id
    THEN sa[CHOOSE i \in DOMAIN sa : sa[i].id = row.client_id].client_secret
    ELSE NoText

\* lines 690-708: one listed key
listItem(sa, row, t) ==
    [id |-> row.id,
     client_id |-> row.client_id,
     client_secret |-> joinedSecret(sa, row),
     api_key |-> row.api_key,
     name |-> row.name,
     description |-> row.description,
     created_at |-> row.created_at,
     expires_at |-> row.expiry_date,
     status |-> listStatus(row, t),
     deleted_at |-> row.deleted_at,
     deleted_by |-> row.deleted_by]

\* lines 709-716: the pagination block of the response
listPagination(query, total) ==
    [page |-> effectivePage(query),
     limit |-> effectiveLimit(query),
     total |-> total,
     total_pages |-> Ceil(total, effectiveLimit(query)),
     has_next |-> effectivePage(query) < Ceil(total, effectiveLimit(query)),
     has_previous |-> effectivePage(query) > 1]


(***************************************************************************)
(* Requests: the inputs the handlers are called with.  Identifiers and     *)
(* random values are opaque to the code, so an input is either a value     *)
(* already in use or one fresh value: the first of its sequence not in use *)
(* (none when all are in use).                                             *)
(***************************************************************************)
Range(seq) == {seq[i] : i \in DOMAIN seq}

Fresh(seq, used) ==
    LET free == {i \in DOMAIN seq : seq[i] \notin used}
    IN  IF free = {} THEN {}
        ELSE {seq[CHOOSE i \in free : \A j \in free : i <= j]}

Drawn(seq, used) == (used \cap Range(seq)) \cup Fresh(seq, used)

StoredTokens(keys) == {keys[i].api_key : i \in DOMAIN keys}
StoredSecrets(sa) == {sa[i].client_secret : i \in DOMAIN sa}
StoredUsers(sa) == {sa[i].user_id : i \in DOMAIN sa}
StoredNames(keys) == {keys[i].name : i \in DOMAIN keys}

\* the raw keys and the client secrets that requests in flight have drawn
InFlightTokens ==
    {loc[q].rawKey : q \in {r \in Procs : pc[r] \in {"checkKey", "saveKey"}}}

InFlightSecrets ==
    {loc[q].acct.client_secret : q \in {r \in Procs : pc[r] = "saveSa"}}

\* expires_at values around the clock: the day before, now, the day after
Times(t) == {x \in {t - 1, t, t + 1} : x >= 0}

CreateDtos(sa, keys, t) ==
    [user_id : Drawn(UserSeq, StoredUsers(sa)),
     name : Drawn(NameSeq, StoredNames(keys)),
     description : {NoText},
     is_active : BOOLEAN,
     expires_at : {Absent, InvalidDate} \cup Times(t)]

\* createApiKey requests under interleaving: either owner, no expiry or one at the
\* clock or a day ahead
ConcDtos(t) ==
    [user_id : Users, name : {NameSeq[1]}, description : {NoText}, is_active : {TRUE},
     expires_at : {Absent, t, t + 1}]

\* createApiKey requests of a known or a new owner, with the default expiry or one a
\* day ahead
OwnerDtos(sa, t) ==
    [user_id : Drawn(UserSeq, StoredUsers(sa)), name : {NameSeq[1]},
     description : {NoText}, is_active : {TRUE}, expires_at : {Absent, t + 1}]

\* the parameters of a direct call of generateApiKey: the id of a stored account or
\* an id no account has, a blank id, no expiry or one around the clock or no Date
GenerationParams(sa, t) ==
    [userId : {NoClient} \cup 1 .. (Len(sa) + 1), name : {NameSeq[1]},
     description : {NoText}, isActive : {TRUE},
     expiresAt : {NoDate, NotADate, t, t + 1}]

\* the arguments of a direct call of generateUniqueKey: the id of a stored account
\* or an id no account has, no expiry or one around the clock
UniqueKeyParams(sa, t) ==
    [userId : 1 .. (Len(sa) + 1), name : {NameSeq[1]}, description : {NoText},
     isActive : {TRUE}, expiresAt : {NoDate} \cup Times(t)]

\* the arguments of a direct call of createKeyRecord: a key that is stored or one
\* that is not, for an account that is stored or not
KeyRecordInputs(sa, keys, t) ==
    [apiKey : Drawn(TokenSeq, StoredTokens(keys)),
     params : [userId : 1 .. (Len(sa) + 1), name : {NameSeq[1]}, description : {NoText},
               isActive : {TRUE}, expiresAt : {NoDate, t}]]

\* updateConfig arguments: a smaller and a larger retry budget, a shorter default
\* expiry and none at all
ConfigInputs ==
    {[maxRetries |-> 1], [maxRetries |-> 4], [defaultExpiryDays |-> 30],
     [defaultExpiryDays |-> 0]}

ValidateDtos(sa, keys) ==
    [client_id : 1 .. 3,
     client_secret : Drawn(SecretSeq, StoredSecrets(sa)),
     api_key : Drawn(TokenSeq, StoredTokens(keys)) \cup {EmptyKey, BlankKey}]

\* the arguments of a direct call of validateApiKey: a raw key, a short string, an
\* empty one or blanks, with or without a client id
ValidationInputs(sa, keys) ==
    [keyToValidate : Drawn(TokenSeq, StoredTokens(keys))
                     \cup {EmptyKey, BlankKey, ShortKey},
     clientId : {NoClient} \cup 1 .. (Len(sa) + 1)]

\* an update names no field or one field
NoUpdate ==
    [provided |-> {}, name |-> "n1", description |-> "d", is_active |-> TRUE,
     expires_at |-> Absent]

UpdateDtos(t) ==
    {NoUpdate}
    \cup {[NoUpdate EXCEPT !.provided = {"name"}, !.name = n] : n \in Names}
    \cup {[NoUpdate EXCEPT !.provided = {"description"}]}
    \cup {[NoUpdate EXCEPT !.provided = {"is_active"}, !.is_active = a] : a \in BOOLEAN}
    \cup {[NoUpdate EXCEPT !.provided = {"expires_at"}, !.expires_at = e] :
            e \in {Absent, InvalidDate} \cup Times(t)}

\* update requests that name several fields at once
UpdateAllFields(t) ==
    {[provided |-> {"name", "description", "is_active", "expires_at"},
      name |-> NameSeq[2], description |-> "d", is_active |-> a, expires_at |-> e] :
        a \in BOOLEAN, e \in {Absent, InvalidDate} \cup Times(t)}

KeyIds == 0 .. 3

\* a listKeys query with every parameter omitted
DefaultQuery ==
    [provided |-> {}, page |-> 0, limit |-> 0, include_deleted |-> FALSE,
     client_id |-> NoClient, status |-> NoText, search |-> NoText,
     sort_by |-> NoText, sort_order |-> NoText]

StatusInputs == {NoText, "active", "inactive", "revoked", "expired", "deleted"}
SearchTerms == {"N1", "client", "_2"}
PageInputs == {-1, 0, 2}
LimitInputs == {-1, 0, 1, 100, 101, 500}

\* queries that set page and limit, or leave them out
PagingQueries ==
    UNION {{[DefaultQuery EXCEPT !.provided = pr, !.page = p, !.limit = l] :
                p \in IF "page" \in pr THEN PageInputs ELSE {0},
                l \in IF "limit" \in pr THEN LimitInputs ELSE {0}} :
           pr \in SUBSET {"page", "limit"}}

\* the queries listKeys is called with: one parameter, or one pair, at a time
ListQueries(sa) ==
    {[DefaultQuery EXCEPT !.include_deleted = d, !.status = st] :
        d \in BOOLEAN, st \in StatusInputs}
    \cup {[DefaultQuery EXCEPT !.provided = {"page", "limit"}, !.page = p, !.limit = l] :
            p \in {0, 2}, l \in {0, 1, 500}}
    \cup {[DefaultQuery EXCEPT !.client_id = c] : c \in 1 .. (Len(sa) + 1)}
    \cup {[DefaultQuery EXCEPT !.search = se] : se \in SearchTerms}
    \cup {[DefaultQuery EXCEPT !.sort_by = sb, !.sort_order = so] :
            sb \in {"name", "api_key"}, so \in {NoText, "ASC"}}

\* what findOne by user_id may return
SaPicks(sa, user_id) ==
    IF SaByUser(sa, user_id) = {} THEN {NoRow} ELSE SaByUser(sa, user_id)

(***************************************************************************)
(* The events a request logs, step by step: at its call, and when the      *)
(* store call it awaits answers or rejects.  l holds the local variables   *)
(* of the request before the step.                                         *)
(***************************************************************************)
\* the generator has thrown error: generateApiKey lines 238-246 when it was called
\* through generateApiKey, and createApiKey lines 161-170
generationFailedEvents(l, error) ==
    (IF l.op \in {"createApiKey", "generateApiKey"}
     THEN <<Event("Key generation failed", [userId |-> l.params.userId, error |-> error],
                  NoTexts)>>
     ELSE <<>>)
    \o (IF l.op = "createApiKey"
        THEN <<Caught("api_key_create", [userId |-> l.dto.user_id], error)>>
        ELSE <<>>)

\* generateApiKey lines 220-221 and generateUniqueKey lines 88 and 125-129: the
\* input check (first: the generator is entered through generateApiKey), and the
\* loop test of the turn numbered attempt
nextAttemptEvents(cfg, t, l, attempt, first) ==
    LET error == validateGenerationInput(t, l.params.userId, l.params.expiresAt) IN
    IF first /\ error # "" THEN generationFailedEvents(l, error)
    ELSE IF ~budgetLeft(cfg, attempt)
    THEN <<logKeyGeneration(cfg, "null", l.params.userId, "error", t,
                            [error |-> exhaustedMessage(cfg)])>>
         \o generationFailedEvents(l, exhaustedMessage(cfg))
    ELSE <<>>

\* the events of a direct call of generateApiKey or generateUniqueKey up to its
\* first await
generatorCalledEvents(cfg, t, op, params) ==
    nextAttemptEvents(cfg, t, [op |-> op, params |-> params], 0, op = "generateApiKey")

\* line 257: the line updateConfig logs
updateConfigEvents(newConfig) ==
    <<Event("Key generation service configuration updated", newConfig, NoTexts)>>

\* the events of a createApiKey call up to its first await
createApiKeyCalledEvents(dto, t) ==
    LET initiated == Event("API key creation initiated",
                           [userId |-> dto.user_id, name |-> dto.name,
                            hasExpiry |-> dto.expires_at # Absent,
                            description |-> dto.description # NoText,
                            isActive |-> dto.is_active], NoTexts)
        bad == CheckExpiresAt(dto.expires_at, t)
    IN  IF bad # ""
        THEN <<initiated,
               Caught("api_key_create", [userId |-> dto.user_id], exceptionMessage(bad))>>
        ELSE <<initiated>>

\* saInfoRepo.findOne has answered with the row sa[pick], or with none (pick is
\* NoRow)
saInfoFindOneByUserEvents(cfg, t, l, sa, pick) ==
    IF pick = NoRow
    THEN <<Event("Creating new sa_info record", [userId |-> l.dto.user_id], NoTexts)>>
    ELSE IF sa[pick].deleted_at # NoDate
    THEN <<Caught("api_key_create", [userId |-> l.dto.user_id],
                  exceptionMessage("SERVICE_ACCOUNT_DELETED"))>>
    ELSE <<Event("Using existing sa_info record",
                 [saInfoId |-> sa[pick].id, userId |-> l.dto.user_id], NoTexts)>>
         \o nextAttemptEvents(cfg, t,
                              [l EXCEPT !.params = generationParams(l.dto, sa[pick])],
                              0, TRUE)

\* saInfoRepo.save has answered with the row acct
saInfoSaveEvents(cfg, t, l, acct) ==
    <<Event("sa_info record created",
            [saInfoId |-> acct.id, userId |-> l.dto.user_id], NoTexts)>>
    \o nextAttemptEvents(cfg, t, [l EXCEPT !.params = generationParams(l.dto, acct)],
                         0, TRUE)

\* checkKeyExists has answered: lines 114-117 when the key is stored
apiKeyFindOneByKeyEvents(cfg, t, l, keys) ==
    IF ~checkKeyExists(keys, l.rawKey) THEN <<>>
    ELSE <<collisionLine(l.attempt + 1, l.params.userId)>>
         \o nextAttemptEvents(cfg, t, l, l.attempt + 1, FALSE)

\* a store call of the generator has rejected with errorMessage: the line of
\* checkKeyExists or createKeyRecord, and inside the loop the record of its catch
generatorCallThrewEvents(cfg, t, l, call, errorMessage) ==
    <<Event(storeCallLine(call), [error |-> errorMessage], NoTexts)>>
    \o (IF l.op = "createKeyRecord" THEN <<>>
        ELSE <<logKeyGeneration(cfg, "null", l.params.userId, "error", t,
                                [error |-> storeCallError(call, errorMessage),
                                 attempt |-> l.attempt])>>
             \o (IF rethrows(call)
                 THEN generationFailedEvents(l, storeCallError(call, errorMessage))
                 ELSE nextAttemptEvents(cfg, t, l, l.attempt, FALSE)))

\* apiKeyRepository.save has answered with row: lines 101, 228 and createApiKey
\* lines 132-141
apiKeySaveEvents(cfg, t, l, row) ==
    (IF l.op = "createKeyRecord" THEN <<>>
     ELSE <<logKeyGeneration(cfg, row.id, l.params.userId, "success", t, NoDetails)>>)
    \o (IF l.op \in {"createApiKey", "generateApiKey"}
        THEN <<Event("API key generated successfully", [userId |-> l.params.userId],
                     NoTexts)>>
        ELSE <<>>)
    \o (IF l.op = "createApiKey"
        THEN <<Event("api_key_create",
                     [success |-> TRUE, userId |-> l.dto.user_id,
                      clientId |-> l.acct.id, keyId |-> row.id, name |-> l.dto.name,
                      hasExpiry |-> row.expiry_date # NoDate,
                      isActive |-> l.dto.is_active], NoTexts)>>
        ELSE <<>>)

\* the event of a validateKey call; hasApiKey is !!api_key, false for '' alone
validateKeyCalledEvents(dto) ==
    <<Event("api_key_validate_start",
            [success |-> TRUE, hasApiKey |-> dto.api_key # EmptyKey,
             clientId |-> dto.client_id], NoTexts)>>

\* lines 288-298: the catch of validateKey
validateKeyCaught(l, error) ==
    Caught("api_key_validate", [hasApiKey |-> l.dto.api_key # EmptyKey], error)

\* lines 245-250: validateApiKey has returned the failure v; the exception thrown
\* with its message is logged by the catch
validateKeyFailedEvents(l, v) ==
    <<Event("api_key_validate",
            [success |-> FALSE, reason |-> v.reason, statusCode |-> v.statusCode],
            NoTexts),
      validateKeyCaught(l, v.message)>>

\* saInfoRepo.findOne by id has answered with the row sa[pick], or with none (pick
\* is NoRow)
saInfoFindOneByIdEvents(t, l, sa, pick, keys) ==
    IF pick = NoRow THEN <<validateKeyCaught(l, exceptionMessage("INVALID_CLIENT_ID"))>>
    ELSE IF ~SecretMatches(sa[pick], l.dto.client_secret)
    THEN <<validateKeyCaught(l, exceptionMessage("INVALID_CLIENT_SECRET"))>>
    ELSE IF isBlank(l.keyToValidate)
    THEN validateKeyFailedEvents(l, validateApiKey(keys, t, l.keyToValidate,
                                                   sa[pick].id, <<>>))
    ELSE <<>>

\* apiKeyRepository.find has answered with the rows found
apiKeyFindEvents(t, l, keys, found) ==
    LET v == validateApiKey(keys, t, l.keyToValidate, l.clientId, found) IN
    validateApiKeyEvents(keys, t, l.keyToValidate, l.clientId, found)
    \o (IF l.op = "validateApiKey" THEN <<>>
        ELSE IF v.isValid
        THEN <<Event("api_key_validate",
                     [success |-> TRUE, keyId |-> v.keyInfo.id,
                      userId |-> l.acct.user_id, clientId |-> l.dto.client_id],
                     NoTexts)>>
        ELSE validateKeyFailedEvents(l, v))

\* apiKeyRepository.find has rejected
apiKeyFindRejectedEvents(l) ==
    validateApiKeyStoreFailureEvents(l.keyToValidate, l.clientId)
    \o (IF l.op = "validateApiKey" THEN <<>>
        ELSE validateKeyFailedEvents(l, validateApiKeyStoreFailure))

\* the events of an updateApiKey or removeKey call up to its first await
keyCalledEvents(op, id, dto) ==
    LET operation == IF op = "updateApiKey" THEN "api_key_update" ELSE "api_key_remove"
        start == Event(operation \o "_start", [success |-> TRUE, keyId |-> id], NoTexts)
    IN  IF id = MissingId
        THEN <<start, Caught(operation, [keyId |-> id], exceptionMessage("MISSING_KEY_ID"))>>
        ELSE IF op = "updateApiKey" /\ dto.provided = {}
        THEN <<start, Caught(operation, [keyId |-> id],
                             exceptionMessage("MISSING_UPDATE_FIELDS"))>>
        ELSE <<start>>

\* apiKeyRepo.findOne by id has answered, for updateApiKey or removeKey
apiKeyFindOneByIdEvents(t, l, keys) ==
    LET operation == IF l.op = "updateApiKey" THEN "api_key_update" ELSE "api_key_remove"
        r == KeyById(keys, l.id)
        bad == IF r = NoRow THEN "KEY_NOT_FOUND"
               ELSE IF l.op = "updateApiKey"
               THEN IF "expires_at" \in l.dto.provided
                    THEN CheckUpdateExpiresAt(l.dto.expires_at, t) ELSE ""
               ELSE IF AlreadyDeleted(keys[r]) THEN "KEY_ALREADY_DELETED" ELSE ""
    IN  (IF r = NoRow
         THEN <<Event(operation, [success |-> FALSE, keyId |-> l.id,
                                  reason |-> "Key not found"], NoTexts)>>
         ELSE <<>>)
        \o (IF bad # "" THEN <<Caught(operation, [keyId |-> l.id], exceptionMessage(bad))>>
            ELSE <<>>)

\* lines 378-429: the columns of updateData, Object.keys(updateData)
updatedFields(dto) ==
    {IF field = "expires_at" THEN "expiry_date" ELSE field : field \in dto.provided}
    \cup {"updated_by"}

\* the second apiKeyRepo.findOne has answered with row
apiKeyRefetchEvents(l, row) ==
    IF l.op = "updateApiKey"
    THEN <<Event("api_key_update",
                 [success |-> TRUE, keyId |-> row.id, clientId |-> row.client_id,
                  updatedFields |-> updatedFields(l.dto)], NoTexts)>>
    ELSE <<Event("api_key_remove",
                 [success |-> TRUE, keyId |-> row.id, clientId |-> row.client_id,
                  deletedBy |-> l.deletedBy], NoTexts)>>

\* the event of a listKeys call
listKeysCalledEvents(query) ==
    <<Event("api_key_list_start", [success |-> TRUE, query |-> query], NoTexts)>>

\* getMany has answered with returned rows
getManyEvents(l, returned) ==
    <<Event("api_key_list",
            [success |-> TRUE, totalKeys |-> l.total, returnedKeys |-> returned,
             page |-> effectivePage(l.query), limit |-> effectiveLimit(l.query),
             search |-> l.query.search], NoTexts)>>

\* the events the request of p logs when the store call it awaits answers now; the
\* row saInfoRepo.findOne returns is one of several when the owner has several
AnswerEvents(p) ==
    LET l == loc[p] IN
    IF pc[p] = "findSa"
    THEN {saInfoFindOneByUserEvents(config, now, l, saInfo, pick) :
            pick \in SaPicks(saInfo, l.dto.user_id)}
    ELSE IF pc[p] = "saveSa"
    THEN {saInfoSaveEvents(config, now, l, [l.acct EXCEPT !.id = Len(saInfo) + 1])}
    ELSE IF pc[p] = "checkKey"
    THEN {apiKeyFindOneByKeyEvents(config, now, l, apiKeys)}
    ELSE IF pc[p] = "saveKey"
    THEN IF SaveRejected(apiKeys, uniqueConstraint, l.rawKey)
         THEN {generatorCallThrewEvents(config, now, l, "api_keys.save", storeFailure)}
         ELSE {apiKeySaveEvents(config, now, l, SavedKey(l.entity, Len(apiKeys) + 1, now))}
    ELSE IF pc[p] = "findClient"
    THEN {saInfoFindOneByIdEvents(now, l, saInfo, SaById(saInfo, l.dto.client_id),
                                  apiKeys)}
    ELSE IF pc[p] = "findKeys"
    THEN {apiKeyFindEvents(now, l, apiKeys, found) :
            found \in findAnswers(apiKeys, l.clientId)}
    ELSE IF pc[p] = "findKey" THEN {apiKeyFindOneByIdEvents(now, l, apiKeys)}
    ELSE IF pc[p] = "refetchKey" THEN {apiKeyRefetchEvents(l, apiKeys[l.id])}
    ELSE IF pc[p] = "fetch"
    THEN {getManyEvents(l, Len(pageOf(order, effectivePage(l.query),
                                      effectiveLimit(l.query)))) :
            order \in sortedOrders(apiKeys, filteredKeys(apiKeys, l.builtAt, l.query),
                                   l.query)}
    ELSE {<<>>}

\* the events the request of p logs when the store call it awaits rejects now
RejectEvents(p) ==
    LET l == loc[p] IN
    IF pc[p] \in {"idle", "done"} THEN <<>>
    ELSE IF pc[p] \in {"findSa", "saveSa"}
    THEN <<Caught("api_key_create", [userId |-> l.dto.user_id], storeFailure)>>
    ELSE IF pc[p] \in {"checkKey", "saveKey"}
    THEN generatorCallThrewEvents(config, now, l,
             IF pc[p] = "checkKey" THEN "api_keys.findOne" ELSE "api_keys.save",
             storeFailure)
    ELSE IF pc[p] = "findClient" THEN <<validateKeyCaught(l, storeFailure)>>
    ELSE IF pc[p] = "findKeys" THEN apiKeyFindRejectedEvents(l)
    ELSE IF l.op = "updateApiKey"
    THEN <<Caught("api_key_update", [keyId |-> l.id], storeFailure)>>
    ELSE IF l.op = "removeKey"
    THEN <<Caught("api_key_remove", [keyId |-> l.id], storeFailure)>>
    ELSE <<Caught("api_key_list", NoDetails, storeFailure)>>

(***************************************************************************)
(* Requests in flight.  pc[p] names the store call the request of caller p *)
(* awaits (or idle, or done once it has answered) and loc[p] holds the     *)
(* local variables of the handler.  A handler action such as createApiKey  *)
(* is the call: the synchronous code up to the first await.  An action     *)
(* named after a store call is that call taking effect, followed by the    *)
(* handler's code up to its next await or to its response.                 *)
(***************************************************************************)
Idle == [op |-> "none", success |-> TRUE, code |-> "", http |-> OK, data |-> <<>>]

Init ==
    /\ saInfo = <<>>
    /\ apiKeys = <<>>
    /\ now = 0
    /\ resp = Idle
    /\ nops = 0
    /\ uniqueConstraint = FALSE
    /\ checkedAt = <<>>
    /\ config = defaultConfig
    /\ pc = [p \in Procs |-> "idle"]
    /\ loc = [p \in Procs |-> <<>>]

\* the same, with a store that may enforce UNIQUE(api_key)
InitConc ==
    /\ saInfo = <<>>
    /\ apiKeys = <<>>
    /\ now = 0
    /\ resp = Idle
    /\ nops = 0
    /\ uniqueConstraint \in BOOLEAN
    /\ checkedAt = <<>>
    /\ config = defaultConfig
    /\ pc = [p \in Procs |-> "idle"]
    /\ loc = [p \in Procs |-> <<>>]

\* one more request, tick or operator step, within the bound max
Op(max) ==
    /\ nops < max
    /\ nops' = nops + 1

\* caller p has no request in flight
Ready(p) == pc[p] \in {"idle", "done"}

\* the request of p answers r: the value a handler returns or what it throws
Respond(p, r) ==
    /\ resp' = r
    /\ pc' = [pc EXCEPT ![p] = "done"]
    /\ loc' = [loc EXCEPT ![p] = [result |-> r]]

\* the request of p awaits the store call named call, with locals l
Await(p, call, l) ==
    /\ resp' = resp
    /\ pc' = [pc EXCEPT ![p] = call]
    /\ loc' = [loc EXCEPT ![p] = l]

\* what a direct call of a service throws: an Error with a message
Thrown(op, message) ==
    [op |-> op, success |-> FALSE, code |-> message, http |-> 0, data |-> <<>>]

\* what a direct call of validateApiKey returns
ValidationResult(v) ==
    [op |-> "validateApiKey", success |-> v.isValid,
     code |-> IF v.isValid THEN "OK" ELSE v.reason, http |-> v.statusCode,
     data |-> IF v.isValid THEN v.keyInfo ELSE <<>>]

(***************************************************************************)
(* createApiKey and generateApiKey.                                        *)
(***************************************************************************)
\* the local variables of a createApiKey request or of a call of the generation
\* service (op: the method called): the account (acct), the id of the sa_info row
\* the request saved (saved), the sequence number of the turn of the loop
\* (attempt), the key drawn (rawKey), the entity to save, and for the record the
\* size of the table when the key was checked (checkedLen)
GenLocals(op, dto, params) ==
    [op |-> op, dto |-> dto, acct |-> <<>>, saved |-> NoRow, params |-> params,
     attempt |-> 0, rawKey |-> "", entity |-> <<>>, checkedLen |-> 0]

\* the generator fails with error: generateApiKey's catch (lines 238-246) rethrows,
\* createApiKey's catch answers KEY_CREATION_ERROR, a direct caller gets the error
GenerationFails(p, l, sa, error) ==
    /\ saInfo' = saInfoAfterCatch(sa, l.saved)
    /\ Respond(p, IF l.op = "createApiKey" THEN KeyCreationError
                  ELSE Thrown(l.op, error))

\* generateUniqueKey lines 88-92: the loop test, the draw of a raw key, and the
\* await of checkKeyExists
NextAttempt(p, l, sa) ==
    IF ~budgetLeft(config, l.attempt)
    THEN GenerationFails(p, l, sa, exhaustedMessage(config))
    ELSE /\ saInfo' = sa
         /\ \E rawKey \in Drawn(TokenSeq, StoredTokens(apiKeys) \cup InFlightTokens) :
                Await(p, "checkKey", [l EXCEPT !.rawKey = rawKey])

\* generateApiKey lines 216-227: validateGenerationInput, then generateUniqueKey
StartGeneration(p, l, sa) ==
    LET error == validateGenerationInput(now, l.params.userId, l.params.expiresAt) IN
    IF error # "" THEN GenerationFails(p, l, sa, error)
    ELSE NextAttempt(p, l, sa)

\* a store call of the generator rejects with errorMessage: checkKeyExists or
\* createKeyRecord throws, and the catch inside the loop rethrows (a direct call of
\* createKeyRecord is not inside the loop)
GeneratorCallThrew(p, l, call, errorMessage) ==
    IF l.op = "createKeyRecord" \/ rethrows(call)
    THEN GenerationFails(p, l, saInfo, storeCallError(call, errorMessage))
    ELSE NextAttempt(p, l, saInfo)

\* createApiKey is called: lines 33-80, the expires_at check and the await of
\* saInfoRepo.findOne
createApiKey(p, dtos) ==
    /\ Ready(p)
    /\ \E dto \in dtos :
        LET bad == CheckExpiresAt(dto.expires_at, now) IN
        IF bad # ""
        THEN Respond(p, Fail("createApiKey", bad, BAD_REQUEST))
        ELSE Await(p, "findSa", GenLocals("createApiKey", dto, <<>>))
    /\ UNCHANGED <<saInfo, apiKeys, now, uniqueConstraint, checkedAt, config>>

\* saInfoRepo.findOne({user_id, deleted_at: IsNull()}) answers; lines 87-129: a new
\* account is built and its save awaited, or the account found is used and the
\* generator called
saInfoFindOneByUser(p) ==
    /\ pc[p] = "findSa"
    /\ LET l == loc[p] IN
       \E pick \in SaPicks(saInfo, l.dto.user_id) :
        IF pick = NoRow
        THEN /\ \E clientSecret \in
                    Drawn(SecretSeq, StoredSecrets(saInfo) \cup InFlightSecrets) :
                  Await(p, "saveSa",
                        [l EXCEPT !.acct = NewSaInfo(NoRow, l.dto.user_id, clientSecret,
                                                     l.dto.description)])
             /\ saInfo' = saInfo
        ELSE IF saInfo[pick].deleted_at # NoDate
        THEN /\ Respond(p, Fail("createApiKey", "SERVICE_ACCOUNT_DELETED", BAD_REQUEST))
             /\ saInfo' = saInfo
        ELSE StartGeneration(p, [l EXCEPT !.acct = saInfo[pick],
                                          !.params = generationParams(l.dto, saInfo[pick])],
                             saInfo)
    /\ UNCHANGED <<apiKeys, now, nops, uniqueConstraint, checkedAt, config>>

\* saInfoRepo.save(newSaInfo) takes effect: the row gets its id; then the generator
\* is called (lines 102-129)
saInfoSave(p) ==
    /\ pc[p] = "saveSa"
    /\ LET l == loc[p]
           row == [l.acct EXCEPT !.id = Len(saInfo) + 1]
       IN  StartGeneration(p, [l EXCEPT !.acct = row, !.saved = row.id,
                                        !.params = generationParams(l.dto, row)],
                           Append(saInfo, row))
    /\ UNCHANGED <<apiKeys, now, nops, uniqueConstraint, checkedAt, config>>

\* generateApiKey is called directly: lines 215-227
generateApiKey(p, inputs) ==
    /\ Ready(p)
    /\ \E params \in inputs :
        StartGeneration(p, GenLocals("generateApiKey", <<>>, params), saInfo)
    /\ UNCHANGED <<apiKeys, now, uniqueConstraint, checkedAt, config>>

\* generateUniqueKey is called directly (lines 79-92): the loop starts without
\* validateGenerationInput
generateUniqueKey(p, inputs) ==
    /\ Ready(p)
    /\ \E params \in inputs :
        NextAttempt(p, GenLocals("generateUniqueKey", <<>>, params), saInfo)
    /\ UNCHANGED <<apiKeys, now, uniqueConstraint, checkedAt, config>>

\* createKeyRecord is called directly (lines 134-155): the entity is built and its
\* save awaited, without checkKeyExists
createKeyRecord(p, inputs) ==
    /\ Ready(p)
    /\ \E input \in inputs :
        Await(p, "saveKey",
              [GenLocals("createKeyRecord", <<>>, input.params) EXCEPT
                  !.rawKey = input.apiKey,
                  !.entity = KeyEntity(config, now, input.apiKey, input.params.userId,
                                       input.params.name, input.params.description,
                                       input.params.isActive, input.params.expiresAt),
                  !.checkedLen = Len(apiKeys)])
    /\ UNCHANGED <<saInfo, apiKeys, now, uniqueConstraint, checkedAt, config>>

\* checkKeyExists answers (findOne by api_key); lines 94-99 and 144-152: when the
\* key is not stored the entity is built and its save awaited, lines 114-118: when
\* it is, the attempt is counted and the loop goes round
apiKeyFindOneByKey(p) ==
    /\ pc[p] = "checkKey"
    /\ LET l == loc[p] IN
       IF ~checkKeyExists(apiKeys, l.rawKey)
       THEN /\ Await(p, "saveKey",
                     [l EXCEPT !.entity = KeyEntity(config, now, l.rawKey, l.params.userId,
                                              l.params.name, l.params.description,
                                              l.params.isActive, l.params.expiresAt),
                               !.checkedLen = Len(apiKeys)])
            /\ saInfo' = saInfo
       ELSE NextAttempt(p, [l EXCEPT !.attempt = @ + 1], saInfo)
    /\ UNCHANGED <<apiKeys, now, nops, uniqueConstraint, checkedAt, config>>

\* apiKeyRepository.save(entity) takes effect, or the store's constraint rejects it;
\* lines 161, 103-112 and 230-237, createApiKey lines 143-160: what the method
\* called returns
apiKeySave(p) ==
    /\ pc[p] = "saveKey"
    /\ LET l == loc[p] IN
       IF SaveRejected(apiKeys, uniqueConstraint, l.rawKey)
       THEN /\ GeneratorCallThrew(p, l, "api_keys.save", storeFailure)
            /\ UNCHANGED <<apiKeys, checkedAt>>
       ELSE LET row == SavedKey(l.entity, Len(apiKeys) + 1, now)
                result == GenerationResult(l.rawKey, row)
            IN  /\ apiKeys' = Append(apiKeys, row)
                /\ checkedAt' = Append(checkedAt, l.checkedLen)
                /\ saInfo' = saInfo
                /\ Respond(p, IF l.op = "createApiKey"
                              THEN Success("createApiKey", "OK",
                                           CreateData(l.dto, l.acct, result))
                              ELSE IF l.op = "generateApiKey"
                              THEN Success("generateApiKey", "OK", result)
                              ELSE IF l.op = "generateUniqueKey"
                              THEN Success("generateUniqueKey", "OK",
                                           UniqueKeyResult(l.rawKey, row))
                              ELSE Success("createKeyRecord", "OK", row))
    /\ UNCHANGED <<now, nops, uniqueConstraint, config>>

\* updateConfig(newConfig): this.config = { ...this.config, ...newConfig }
updateConfig(inputs) ==
    /\ \E newConfig \in inputs : config' = newConfig @@ config
    /\ UNCHANGED <<saInfo, apiKeys, now, resp, uniqueConstraint, checkedAt, pc, loc>>

(***************************************************************************)
(* validateKey and validateApiKey.                                         *)
(***************************************************************************)
\* validateApiKey lines 23-52: a blank key fails at once, otherwise find is awaited
StartValidation(p, l) ==
    IF isBlank(l.keyToValidate)
    THEN LET v == validateApiKey(apiKeys, now, l.keyToValidate, l.clientId, <<>>) IN
         Respond(p, IF l.op = "validateKey" THEN ValidationFailed(v.reason, v.statusCode)
                    ELSE ValidationResult(v))
    ELSE Await(p, "findKeys", l)

\* validateKey is called: lines 190-204, up to the await of saInfoRepo.findOne
validateKey(p, dtos) ==
    /\ Ready(p)
    /\ \E dto \in dtos :
        Await(p, "findClient",
              [op |-> "validateKey", dto |-> dto, acct |-> <<>>,
               keyToValidate |-> dto.api_key, clientId |-> dto.client_id])
    /\ UNCHANGED <<saInfo, apiKeys, now, uniqueConstraint, checkedAt, config>>

\* saInfoRepo.findOne({id: client_id, deleted_at: IsNull()}) answers; lines 206-237:
\* the account and secret checks, then validateApiKey(api_key, saInfo.id)
saInfoFindOneById(p) ==
    /\ pc[p] = "findClient"
    /\ LET l == loc[p]
           i == SaById(saInfo, l.dto.client_id)
       IN  IF i = NoRow
           THEN Respond(p, Fail("validateKey", "INVALID_CLIENT_ID", UNAUTHORIZED))
           ELSE IF ~SecretMatches(saInfo[i], l.dto.client_secret)
           THEN Respond(p, Fail("validateKey", "INVALID_CLIENT_SECRET", UNAUTHORIZED))
           ELSE StartValidation(p, [l EXCEPT !.acct = saInfo[i], !.clientId = saInfo[i].id])
    /\ UNCHANGED <<saInfo, apiKeys, now, nops, uniqueConstraint, checkedAt, config>>

\* validateApiKey is called directly
validateApiKeyCalled(p, inputs) ==
    /\ Ready(p)
    /\ \E input \in inputs :
        StartValidation(p, [op |-> "validateApiKey", dto |-> <<>>, acct |-> <<>>,
                            keyToValidate |-> input.keyToValidate,
                            clientId |-> input.clientId])
    /\ UNCHANGED <<saInfo, apiKeys, now, uniqueConstraint, checkedAt, config>>

\* the rows stay as they are when a validation reads them
expireEagerly(keys, t) ==
    [i \in DOMAIN keys |->
        IF keys[i].expiry_date # NoDate /\ keys[i].expiry_date <= t
        THEN [keys[i] EXCEPT !.is_active = FALSE] ELSE keys[i]]

\* validateApiKey writes nothing: expiry is evaluated when a key is read
expireLazily(keys, t) ==
    keys

\* apiKeyRepository.find({is_active: true, client_id}) answers, in an order the
\* store chooses; validateApiKey lines 54-116 and validateKey lines 239-300: the
\* scan, the expiry test, the response
apiKeyFind(p) ==
    /\ pc[p] = "findKeys"
    /\ \E found \in findAnswers(apiKeys, loc[p].clientId) :
        LET l == loc[p]
            v == validateApiKey(apiKeys, now, l.keyToValidate, l.clientId, found)
        IN  Respond(p, IF l.op = "validateApiKey" THEN ValidationResult(v)
                       ELSE IF v.isValid
                       THEN Success("validateKey", "KEY_VALID",
                                    ValidData(l.acct, v.keyInfo))
                       ELSE ValidationFailed(v.reason, v.statusCode))
    /\ apiKeys' = expireLazily(apiKeys, now)
    /\ UNCHANGED <<saInfo, now, nops, uniqueConstraint, checkedAt, config>>

(***************************************************************************)
(* updateApiKey and removeKey.                                             *)
(***************************************************************************)
\* updateApiKey is called: lines 317-356, the id and field checks and the await of
\* apiKeyRepo.findOne
updateApiKey(p, ids, dtos) ==
    /\ Ready(p)
    /\ \E id \in ids, dto \in dtos :
        IF id = MissingId
        THEN Respond(p, Fail("updateApiKey", "MISSING_KEY_ID", BAD_REQUEST))
        ELSE IF dto.provided = {}
        THEN Respond(p, Fail("updateApiKey", "MISSING_UPDATE_FIELDS", BAD_REQUEST))
        ELSE Await(p, "findKey", [op |-> "updateApiKey", id |-> id, dto |-> dto,
                                  deletedBy |-> "", deletedAt |-> NoDate])
    /\ UNCHANGED <<saInfo, apiKeys, now, uniqueConstraint, checkedAt, config>>

\* removeKey is called: lines 489-513, the id check and the await of
\* apiKeyRepo.findOne
removeKey(p, ids, actors) ==
    /\ Ready(p)
    /\ \E id \in ids, deletedBy \in actors :
        IF id = MissingId
        THEN Respond(p, Fail("removeKey", "MISSING_KEY_ID", BAD_REQUEST))
        ELSE Await(p, "findKey", [op |-> "removeKey", id |-> id, dto |-> <<>>,
                                  deletedBy |-> deletedBy, deletedAt |-> NoDate])
    /\ UNCHANGED <<saInfo, apiKeys, now, uniqueConstraint, checkedAt, config>>

\* apiKeyRepo.findOne({id}) answers.  updateApiKey lines 358-432: not found, or the
\* expires_at check with the clock read here, then the await of update.  removeKey
\* lines 515-552: not found, already deleted, or the await of update with
\* deleted_at: new Date() read here
apiKeyFindOneById(p) ==
    /\ pc[p] = "findKey"
    /\ LET l == loc[p]
           r == KeyById(apiKeys, l.id)
       IN  IF r = NoRow
           THEN Respond(p, Fail(l.op, "KEY_NOT_FOUND", NOT_FOUND))
           ELSE IF l.op = "updateApiKey"
           THEN LET bad == IF "expires_at" \in l.dto.provided
                           THEN CheckUpdateExpiresAt(l.dto.expires_at, now) ELSE ""
                IN  IF bad # "" THEN Respond(p, Fail(l.op, bad, BAD_REQUEST))
                    ELSE Await(p, "updateKey", l)
           ELSE IF AlreadyDeleted(apiKeys[r])
           THEN Respond(p, Fail(l.op, "KEY_ALREADY_DELETED", BAD_REQUEST))
           ELSE Await(p, "updateKey", [l EXCEPT !.deletedAt = now])
    /\ UNCHANGED <<saInfo, apiKeys, now, nops, uniqueConstraint, checkedAt, config>>

\* apiKeyRepo.update(id, ...) takes effect on the row with that id, whatever became
\* of it since it was read; then the second findOne is awaited
apiKeyUpdate(p) ==
    /\ pc[p] = "updateKey"
    /\ LET l == loc[p] IN
       /\ apiKeys' = [apiKeys EXCEPT ![l.id] =
                        IF l.op = "updateApiKey" THEN ApplyUpdate(@, l.dto)
                        ELSE SoftDelete(@, l.deletedAt, l.deletedBy)]
       /\ Await(p, "refetchKey", l)
    /\ UNCHANGED <<saInfo, now, nops, uniqueConstraint, checkedAt, config>>

\* the second apiKeyRepo.findOne({id}) answers; updateApiKey lines 435-460 and
\* removeKey lines 555-577: the response, from the row as it is now
apiKeyRefetch(p) ==
    /\ pc[p] = "refetchKey"
    /\ LET l == loc[p] IN
       Respond(p, Success(l.op, "OK", IF l.op = "updateApiKey"
                                      THEN UpdateData(apiKeys[l.id])
                                      ELSE RemoveData(apiKeys[l.id])))
    /\ UNCHANGED <<saInfo, apiKeys, now, nops, uniqueConstraint, checkedAt, config>>

(***************************************************************************)
(* listKeys.                                                               *)
(***************************************************************************)
\* listKeys is called: lines 606-661, the query with its filters, whose date
\* parameters are read here, and the await of getCount
listKeys(p, queries) ==
    /\ Ready(p)
    /\ \E query \in queries :
        Await(p, "count", [op |-> "listKeys", query |-> query, builtAt |-> now,
                           total |-> 0])
    /\ UNCHANGED <<saInfo, apiKeys, now, uniqueConstraint, checkedAt, config>>

\* getCount answers; lines 663-672: the ordering and the page, and the await of
\* getMany
getCount(p) ==
    /\ pc[p] = "count"
    /\ LET l == loc[p] IN
       Await(p, "fetch",
             [l EXCEPT !.total = Cardinality(filteredKeys(apiKeys, l.builtAt, l.query))])
    /\ UNCHANGED <<saInfo, apiKeys, now, nops, uniqueConstraint, checkedAt, config>>

\* getMany answers; lines 674-720: the items, whose status is computed with the
\* clock read here, and the pagination from the count
getMany(p) ==
    /\ pc[p] = "fetch"
    /\ LET l == loc[p] IN
       \E order \in sortedOrders(apiKeys, filteredKeys(apiKeys, l.builtAt, l.query),
                                 l.query) :
        LET ids == pageOf(order, effectivePage(l.query), effectiveLimit(l.query)) IN
        Respond(p, Success("listKeys", "OK",
            [keys |-> [k \in DOMAIN ids |-> listItem(saInfo, apiKeys[ids[k]], now)],
             pagination |-> listPagination(l.query, l.total)]))
    /\ UNCHANGED <<saInfo, apiKeys, now, nops, uniqueConstraint, checkedAt, config>>

(***************************************************************************)
(* Store calls that reject, the clock, the operator of the store.          *)
(***************************************************************************)
\* the store call the request of p awaits rejects (the connection is lost, the
\* statement times out); ops are the handlers it may happen to
StoreCallRejects(p, ops) ==
    /\ ~Ready(p)
    /\ loc[p].op \in ops
    /\ LET l == loc[p] IN
       IF l.op \in {"createApiKey", "generateApiKey", "generateUniqueKey",
                    "createKeyRecord"}
       THEN IF pc[p] \in {"findSa", "saveSa"}
            THEN \* createApiKey lines 161-185
                 /\ Respond(p, KeyCreationError)
                 /\ saInfo' = saInfo
            ELSE GeneratorCallThrew(p, l, IF pc[p] = "checkKey" THEN "api_keys.findOne"
                                          ELSE "api_keys.save", storeFailure)
       ELSE /\ saInfo' = saInfo
            /\ IF l.op = "validateKey"
               THEN IF pc[p] = "findClient"
                    THEN \* validateKey lines 302-313
                         Respond(p, Fail("validateKey", "VALIDATION_SERVICE_ERROR",
                                         INTERNAL_SERVER_ERROR))
                    ELSE Respond(p, ValidationFailed(validateApiKeyStoreFailure.reason,
                                        validateApiKeyStoreFailure.statusCode))
               ELSE IF l.op = "validateApiKey"
               THEN Respond(p, ValidationResult(validateApiKeyStoreFailure))
               ELSE IF l.op = "updateApiKey"
               THEN \* updateApiKey lines 462-485
                    Respond(p, Fail("updateApiKey", "KEY_UPDATE_ERROR",
                                    INTERNAL_SERVER_ERROR))
               ELSE IF l.op = "removeKey"
               THEN \* removeKey lines 579-602
                    Respond(p, Fail("removeKey", "KEY_REMOVAL_ERROR",
                                    INTERNAL_SERVER_ERROR))
               ELSE \* listKeys lines 722-739
                    Respond(p, Fail("listKeys", "KEY_LISTING_ERROR",
                                    INTERNAL_SERVER_ERROR))
    /\ UNCHANGED <<apiKeys, now, nops, uniqueConstraint, checkedAt, config>>

\* the clock advances
Tick ==
    /\ now' = now + 1
    /\ UNCHANGED <<saInfo, apiKeys, resp, uniqueConstraint, checkedAt, config, pc, loc>>

\* a service account is soft-deleted (deleted_at, deleted_by of sa_info): no handler
\* of the library does it, an operator of the store does
softDeleteServiceAccount ==
    /\ \E i \in DOMAIN saInfo :
        /\ saInfo[i].deleted_at = NoDate
        /\ saInfo' = [saInfo EXCEPT ![i].deleted_at = now, ![i].deleted_by = "admin"]
    /\ UNCHANGED <<apiKeys, now, resp, uniqueConstraint, checkedAt, config, pc, loc>>

(***************************************************************************)
(* One client: its requests follow one another, while the clock and the    *)
(* operator of the store take steps between the store calls of a request.  *)
(***************************************************************************)
Next ==
    \/ Op(MaxOps) /\ createApiKey(1, CreateDtos(saInfo, apiKeys, now))
    \/ Op(MaxOps) /\ validateKey(1, ValidateDtos(saInfo, apiKeys))
    \/ Op(MaxOps) /\ updateApiKey(1, KeyIds, UpdateDtos(now) \cup UpdateAllFields(now))
    \/ Op(MaxOps) /\ removeKey(1, KeyIds, Actors)
    \/ Op(MaxOps) /\ Tick
    \/ Op(MaxOps) /\ softDeleteServiceAccount
    \/ saInfoFindOneByUser(1)
    \/ saInfoSave(1)
    \/ apiKeyFindOneByKey(1)
    \/ apiKeySave(1)
    \/ saInfoFindOneById(1)
    \/ apiKeyFind(1)
    \/ apiKeyFindOneById(1)
    \/ apiKeyUpdate(1)
    \/ apiKeyRefetch(1)

Spec == Init /\ [][Next]_vars

(***************************************************************************)
(* One client, with listings.                                              *)
(***************************************************************************)
NextList ==
    \/ Next
    \/ Op(MaxOps) /\ listKeys(1, ListQueries(saInfo))
    \/ getCount(1)
    \/ getMany(1)

SpecList == Init /\ [][NextList]_vars

(***************************************************************************)
(* Generation: the requests that write what the generator reads, direct    *)
(* calls of the generation service, and changes of its configuration.      *)
(***************************************************************************)
NextGen ==
    \/ Op(MaxOps) /\ createApiKey(1, CreateDtos(saInfo, apiKeys, now))
    \/ Op(MaxOps) /\ removeKey(1, KeyIds, Actors)
    \/ Op(MaxOps) /\ generateApiKey(1, GenerationParams(saInfo, now))
    \/ Op(MaxOps) /\ generateUniqueKey(1, UniqueKeyParams(saInfo, now))
    \/ Op(MaxOps) /\ createKeyRecord(1, KeyRecordInputs(saInfo, apiKeys, now))
    \/ Op(MaxOps) /\ updateConfig(ConfigInputs)
    \/ Op(MaxOps) /\ Tick
    \/ saInfoFindOneByUser(1)
    \/ saInfoSave(1)
    \/ apiKeyFindOneByKey(1)
    \/ apiKeySave(1)
    \/ apiKeyFindOneById(1)
    \/ apiKeyUpdate(1)
    \/ apiKeyRefetch(1)

SpecGen == Init /\ [][NextGen]_vars

(***************************************************************************)
(* Generation with store calls that reject.                                *)
(***************************************************************************)
NextFault ==
    \/ Op(MaxOps) /\ createApiKey(1, OwnerDtos(saInfo, now))
    \/ Op(MaxOps) /\ generateApiKey(1, GenerationParams(saInfo, now))
    \/ Op(MaxOps) /\ updateConfig(ConfigInputs)
    \/ Op(MaxOps) /\ Tick
    \/ saInfoFindOneByUser(1)
    \/ saInfoSave(1)
    \/ apiKeyFindOneByKey(1)
    \/ apiKeySave(1)
    \/ StoreCallRejects(1, {"createApiKey", "generateApiKey"})

SpecFault == Init /\ [][NextFault]_vars

(***************************************************************************)
(* Concurrent creation: the createApiKey requests of two callers           *)
(* interleave at their awaits, on a store with or without UNIQUE(api_key). *)
(***************************************************************************)
NextConc ==
    \/ \E p \in Procs : Op(MaxConcOps) /\ createApiKey(p, ConcDtos(now))
    \/ Op(MaxConcOps) /\ Tick
    \/ \E p \in Procs : saInfoFindOneByUser(p)
    \/ \E p \in Procs : saInfoSave(p)
    \/ \E p \in Procs : apiKeyFindOneByKey(p)
    \/ \E p \in Procs : apiKeySave(p)

SpecConc == InitConc /\ [][NextConc]_vars

(***************************************************************************)
(* Reads: keys are created (also by createKeyRecord called directly, which *)
(* stores a key another row may hold), updated and removed, the clock      *)
(* moves, and validateKey, validateApiKey and listKeys are called, with    *)
(* store calls that answer or reject.                                      *)
(***************************************************************************)
\* updates of the name or of the activation
RenameDtos ==
    {[NoUpdate EXCEPT !.provided = {"name"}, !.name = NameSeq[2]],
     [NoUpdate EXCEPT !.provided = {"is_active"}, !.is_active = FALSE]}

NextRead ==
    \/ Op(MaxOps) /\ createApiKey(1, OwnerDtos(saInfo, now))
    \/ Op(MaxOps) /\ createKeyRecord(1, KeyRecordInputs(saInfo, apiKeys, now))
    \/ Op(MaxOps) /\ updateApiKey(1, 1 .. 2, RenameDtos)
    \/ Op(MaxOps) /\ removeKey(1, KeyIds, Actors)
    \/ Op(MaxOps) /\ Tick
    \/ Op(MaxOps) /\ validateKey(1, ValidateDtos(saInfo, apiKeys))
    \/ Op(MaxOps) /\ validateApiKeyCalled(1, ValidationInputs(saInfo, apiKeys))
    \/ Op(MaxOps) /\ listKeys(1, ListQueries(saInfo))
    \/ saInfoFindOneByUser(1)
    \/ saInfoSave(1)
    \/ apiKeyFindOneByKey(1)
    \/ apiKeySave(1)
    \/ apiKeyFindOneById(1)
    \/ apiKeyUpdate(1)
    \/ apiKeyRefetch(1)
    \/ saInfoFindOneById(1)
    \/ apiKeyFind(1)
    \/ getCount(1)
    \/ getMany(1)
    \/ StoreCallRejects(1, {"createApiKey", "validateKey", "validateApiKey",
                            "updateApiKey", "removeKey", "listKeys"})

SpecRead == Init /\ [][NextRead]_vars

(***************************************************************************)
(* Concurrent changes of a key: after keys were created, the removeKey and *)
(* updateApiKey requests of two callers interleave at their awaits, with   *)
(* store calls that answer or reject.                                      *)
(***************************************************************************)
NextRemove ==
    \/ Op(MaxOps) /\ createApiKey(1, OwnerDtos(saInfo, now))
    \/ Op(MaxOps) /\ Tick
    \/ \E p \in Procs : Op(MaxOps) /\ removeKey(p, KeyIds, Actors)
    \/ \E p \in Procs : Op(MaxOps) /\ updateApiKey(p, 1 .. 2, RenameDtos)
    \/ saInfoFindOneByUser(1)
    \/ saInfoSave(1)
    \/ apiKeyFindOneByKey(1)
    \/ apiKeySave(1)
    \/ \E p \in Procs : apiKeyFindOneById(p)
    \/ \E p \in Procs : apiKeyUpdate(p)
    \/ \E p \in Procs : apiKeyRefetch(p)
    \/ \E p \in Procs : StoreCallRejects(p, {"updateApiKey", "removeKey"})

SpecRemove == Init /\ [][NextRemove]_vars

(***************************************************************************)
(* Claims.                                                                 *)
(***************************************************************************)
Deleted(row) == row.deleted_at # NoDate

\* a request is called in this step
Called == nops' = nops + 1 /\ now' = now /\ config' = config /\ saInfo' = saInfo

\* the store call the request of p awaits takes effect or rejects in this step
Moves(p) == ~Ready(p) /\ (pc'[p] # pc[p] \/ loc'[p] # loc[p])

\* the request of p answers in this step, to a store call
Answers(p) == ~Ready(p) /\ pc'[p] = "done"

\* C1: in every state reached by the requests of one client, each awaited before
\* the next is made, no two api-key rows hold the same api_key value, soft-deleted
\* rows included.
C1_UniqueApiKeys ==
    \A i, j \in DOMAIN apiKeys : i # j => apiKeys[i].api_key # apiKeys[j].api_key

\* a key was created while an earlier key is soft-deleted
C1_Witness ==
    /\ resp.op = "createApiKey" /\ resp.success
    /\ Len(apiKeys) = 2
    /\ Deleted(apiKeys[1])
    /\ resp.data.key_id = 2

\* C2: under interleaved createApiKey requests two rows share an api_key only when
\* the store has no uniqueness constraint and the later row's existence check ran
\* before the earlier row was inserted (the check-then-act race); with the
\* constraint no two rows share an api_key under any interleaving.
C2_DuplicatesOnlyByRace ==
    \A i, j \in DOMAIN apiKeys :
        (i < j /\ apiKeys[i].api_key = apiKeys[j].api_key)
            => (~uniqueConstraint /\ checkedAt[j] < i)

\* both requests checked the same token before either inserted, and both inserted
C2_Witness ==
    /\ ~uniqueConstraint
    /\ Len(apiKeys) = 2
    /\ apiKeys[1].api_key = apiKeys[2].api_key
    /\ checkedAt[2] = 0

\* C3: when saInfoRepo.findOne answers a validateKey request with a non-deleted
\* account whose client_secret differs from the presented one, the request answers
\* INVALID_CLIENT_SECRET (401) there and then, whatever the api_key and whatever the
\* api-key table holds: no call on the api-key table is issued.
C3_Step ==
    \A p \in Procs :
        (/\ pc[p] = "findClient" /\ Moves(p)
         /\ \E i \in DOMAIN saInfo :
                /\ saInfo[i].id = loc[p].dto.client_id
                /\ ~Deleted(saInfo[i])
                /\ saInfo[i].client_secret # loc[p].dto.client_secret)
        => /\ pc'[p] = "done"
           /\ resp' = Fail("validateKey", "INVALID_CLIENT_SECRET", UNAUTHORIZED)
           /\ apiKeys' = apiKeys

C3_WrongSecretRevealsNothing == [][C3_Step]_vars

\* a wrong secret was presented to the only account, which owns a valid key
C3_Witness ==
    /\ resp = Fail("validateKey", "INVALID_CLIENT_SECRET", UNAUTHORIZED)
    /\ Len(saInfo) = 1 /\ ~Deleted(saInfo[1])
    /\ \E k \in DOMAIN apiKeys :
        /\ apiKeys[k].client_id = saInfo[1].id
        /\ apiKeys[k].is_active /\ ~Deleted(apiKeys[k]) /\ apiKeys[k].expiry_date > now

\* C4: two createApiKey calls in sequence for the same owner with different names,
\* no service account being soft-deleted meanwhile: both responses carry the same
\* client_id and client_secret, the owner has exactly one non-deleted service
\* account, and both new rows reference it.
C4_Step ==
    (/\ Answers(1)
     /\ resp.op = "createApiKey" /\ resp.success
     /\ resp'.op = "createApiKey" /\ resp'.success
     /\ resp'.data.user_id = resp.data.user_id
     /\ resp'.data.name # resp.data.name
     /\ \A i \in DOMAIN saInfo' : ~Deleted(saInfo'[i]))
    => /\ resp'.data.client_id = resp.data.client_id
       /\ resp'.data.client_secret = resp.data.client_secret
       /\ resp'.data.key_id # resp.data.key_id
       /\ SaByUser(saInfo', resp.data.user_id) = {resp.data.client_id}
       /\ apiKeys'[resp.data.key_id].client_id = resp.data.client_id
       /\ apiKeys'[resp'.data.key_id].client_id = resp.data.client_id
       /\ Len(apiKeys') = Len(apiKeys) + 1

C4_IdempotentProvisioning == [][C4_Step]_vars

\* the second of two creations for one owner has returned
C4_Witness ==
    /\ resp.op = "createApiKey" /\ resp.success
    /\ nops = 2
    /\ Len(apiKeys) = 2
    /\ Len(saInfo) = 1
    /\ apiKeys[1].client_id = apiKeys[2].client_id
    /\ apiKeys[1].name # apiKeys[2].name
    /\ resp.data.client_secret = saInfo[1].client_secret

\* C5 (as claimed): in every reachable state, interleaved createApiKey requests
\* included, an owner has at most one service account with deleted_at null.
C5_OneActiveAccountPerOwner ==
    \A u \in Users : Cardinality(SaByUser(saInfo, u)) <= 1

\* C6 (as claimed): no service account is ever created for an owner who has a
\* soft-deleted one: createApiKey for such an owner adds no row.
C6_NoRecreateUnderDeletedOwner ==
    \A i, j \in DOMAIN saInfo :
        (i < j /\ saInfo[i].user_id = saInfo[j].user_id) => ~Deleted(saInfo[i])

\* C7: when saInfoRepo.findOne answers a validateKey request whose client_id is that
\* of a soft-deleted account, or of no account, the request answers
\* INVALID_CLIENT_ID (401) whatever the secret and the api_key; and a service
\* account's deleted_at, once set, stays as it is.
C7_Step ==
    /\ \A p \in Procs :
        (/\ pc[p] = "findClient" /\ Moves(p)
         /\ \A i \in DOMAIN saInfo :
                saInfo[i].id = loc[p].dto.client_id => Deleted(saInfo[i]))
        => /\ pc'[p] = "done"
           /\ resp' = Fail("validateKey", "INVALID_CLIENT_ID", UNAUTHORIZED)
    /\ \A i \in DOMAIN saInfo :
        Deleted(saInfo[i]) =>
            /\ i \in DOMAIN saInfo'
            /\ saInfo'[i].deleted_at = saInfo[i].deleted_at
            /\ saInfo'[i].id = saInfo[i].id

C7_DeletedAccountRejected == [][C7_Step]_vars

\* a request was refused while every account is soft-deleted and one of them owns a
\* valid key
C7_Witness ==
    /\ resp = Fail("validateKey", "INVALID_CLIENT_ID", UNAUTHORIZED)
    /\ \E k \in DOMAIN apiKeys, i \in DOMAIN saInfo :
        /\ Deleted(saInfo[i]) /\ apiKeys[k].client_id = saInfo[i].id
        /\ apiKeys[k].is_active /\ ~Deleted(apiKeys[k]) /\ apiKeys[k].expiry_date > now
    /\ \A j \in DOMAIN saInfo : Deleted(saInfo[j])

\* C8 (as claimed): a soft-deleted key is never reported valid: a validateKey
\* request that presents the raw key of a removed key does not answer KEY_VALID.
C8_Step ==
    \A p \in Procs :
        (pc[p] = "findKeys" /\ Answers(p) /\ resp'.op = "validateKey" /\ resp'.success)
        => ~Deleted(apiKeys[resp'.data.key_id])

C8_DeletedKeyNeverValid == [][C8_Step]_vars

\* C9: a createApiKey call with an expires_at that is not strictly after the time of
\* the call is rejected with EXPIRY_DATE_PAST (400) before any store call: such a
\* request never comes to await the store, and the call that is rejected writes
\* neither a service-account nor an api-key row.
C9_State ==
    \A dto \in CreateDtos(saInfo, apiKeys, now) :
        (dto.expires_at \in Times(now) /\ dto.expires_at <= now)
        => CheckExpiresAt(dto.expires_at, now) = "EXPIRY_DATE_PAST"

C9_Step ==
    /\ \A p \in Procs :
        (Called /\ Ready(p) /\ pc'[p] = "findSa")
        => \/ loc'[p].dto.expires_at = Absent
           \/ loc'[p].dto.expires_at > now
    /\ (resp' = Fail("createApiKey", "EXPIRY_DATE_PAST", BAD_REQUEST) /\ resp' # resp)
        => Called /\ saInfo' = saInfo /\ apiKeys' = apiKeys

C9_PastExpiryRejected == []C9_State /\ [][C9_Step]_vars

\* a first-time owner's request was rejected for its expiry and nothing was written
C9_Witness ==
    /\ resp = Fail("createApiKey", "EXPIRY_DATE_PAST", BAD_REQUEST)
    /\ saInfo = <<>>
    /\ apiKeys = <<>>
    /\ nops > 0

\* C10: when apiKeyRepo.findOne answers a removeKey request with a row whose
\* deleted_at is set, the request fails with KEY_ALREADY_DELETED (400) and the row,
\* its deleted_at and deleted_by included, stays as it is.
C10_Step ==
    \A p \in Procs :
        (/\ pc[p] = "findKey" /\ Moves(p) /\ loc[p].op = "removeKey"
         /\ loc[p].id \in DOMAIN apiKeys /\ Deleted(apiKeys[loc[p].id]))
        => /\ pc'[p] = "done"
           /\ resp' = Fail("removeKey", "KEY_ALREADY_DELETED", BAD_REQUEST)
           /\ apiKeys' = apiKeys

C10_SecondRemovalRejected == [][C10_Step]_vars

\* a removed key was removed again, later and by someone else
C10_Witness ==
    /\ resp = Fail("removeKey", "KEY_ALREADY_DELETED", BAD_REQUEST)
    /\ nops = MaxOps
    /\ \E id \in DOMAIN apiKeys :
        /\ Deleted(apiKeys[id])
        /\ apiKeys[id].deleted_by = "admin"

\* the status the precedence deleted > inactive > expired > active gives a row at t
PrecedenceHolds(row, status, t) ==
    /\ Deleted(row) => status = "deleted"
    /\ (~Deleted(row) /\ ~row.is_active) => status = "inactive"
    /\ (~Deleted(row) /\ row.is_active /\ row.expiry_date <= t) => status = "expired"
    /\ (~Deleted(row) /\ row.is_active /\ row.expiry_date > t) => status = "active"

\* getMany answers the listKeys request of p in this step
Lists(p) == pc[p] = "fetch" /\ Answers(p) /\ resp'.success

\* C11: every key listKeys returns has the status the precedence deleted > inactive >
\* expired > active gives its stored flags when the items are built; a key with
\* deleted_at set is listed as 'deleted' whatever its is_active and expiry_date.
C11_Step ==
    \A p \in Procs :
        Lists(p) =>
            \A k \in DOMAIN resp'.data.keys :
                PrecedenceHolds(apiKeys[resp'.data.keys[k].id],
                                resp'.data.keys[k].status, now)

C11_StatusPrecedence == [][C11_Step]_vars

\* a listing showed as deleted a key that is active and not expired
C11_Witness ==
    /\ resp.op = "listKeys"
    /\ \E k \in DOMAIN resp.data.keys :
        /\ resp.data.keys[k].status = "deleted"
        /\ apiKeys[resp.data.keys[k].id].is_active
        /\ apiKeys[resp.data.keys[k].id].expiry_date > now

\* C12 (as claimed): the status in a createApiKey, updateApiKey or validateKey
\* response is the status listKeys shows for the same stored flags at the same time.
C12_Step ==
    \A p \in Procs :
        (/\ Answers(p) /\ resp'.success
         /\ resp'.op \in {"createApiKey", "updateApiKey", "validateKey"})
        => resp'.data.status = listStatus(apiKeys'[resp'.data.key_id], now)

C12_SameStatusEverywhere == [][C12_Step]_vars

\* C13: a listed key that is not deleted, is active and has expiry_date equal to the
\* time the items are built has status 'expired'; a listed key has status 'active'
\* only when its expiry_date is strictly after that time.
C13_Step ==
    \A p \in Procs :
        Lists(p) =>
            \A k \in DOMAIN resp'.data.keys :
                LET row == apiKeys[resp'.data.keys[k].id] IN
                /\ (~Deleted(row) /\ row.is_active /\ row.expiry_date = now)
                       => resp'.data.keys[k].status = "expired"
                /\ resp'.data.keys[k].status = "active" => row.expiry_date > now

C13_ExpiryBoundary == [][C13_Step]_vars

\* a listing showed as expired an active key whose expiry_date is now
C13_Witness ==
    /\ resp.op = "listKeys"
    /\ \E k \in DOMAIN resp.data.keys :
        /\ resp.data.keys[k].status = "expired"
        /\ resp.data.keys[k].expires_at = now
        /\ apiKeys[resp.data.keys[k].id].is_active
        /\ ~Deleted(apiKeys[resp.data.keys[k].id])

\* C14 (as claimed): no listKeys response carries the raw api_key of a key: the raw
\* key is returned once, by the createApiKey call that minted it.
C14_RawKeyReturnedOnce ==
    resp.op = "listKeys" =>
        \A k \in DOMAIN resp.data.keys :
            resp.data.keys[k].api_key # apiKeys[resp.data.keys[k].id].api_key

\* C15 (as claimed): a client_secret is returned only by the createApiKey call that
\* creates the service account: not by a later createApiKey for the same owner (one
\* whose account already has a key), and not by listKeys.
C15_SecretReturnedOnce ==
    /\ (/\ resp.op = "createApiKey" /\ resp.success
        /\ \E i \in DOMAIN apiKeys :
              i < resp.data.key_id /\ apiKeys[i].client_id = resp.data.client_id)
       => resp.data.client_secret \notin StoredSecrets(saInfo)
    /\ resp.op = "listKeys" =>
          \A k \in DOMAIN resp.data.keys :
              resp.data.keys[k].client_secret \notin StoredSecrets(saInfo)

\* the number of rows a query without filters counts now
UnfilteredTotal == Cardinality(filteredKeys(apiKeys, now, DefaultQuery))

\* C16 (as claimed): for every integer page and limit passed to listKeys, the
\* effective page is max(1, page) and the effective limit is min(100, max(1, limit)).
C16_ClampAsClaimed ==
    \A query \in PagingQueries :
        LET pg == listPagination(query, UnfilteredTotal) IN
        /\ "page" \in query.provided => pg.page = Max(1, query.page)
        /\ "limit" \in query.provided => pg.limit = Min(maxLimit, Max(1, query.limit))

\* the least n with n * limit >= total
PagesNeeded(total, limit) ==
    CHOOSE n \in 0 .. total : n * limit >= total /\ (n = 0 \/ (n - 1) * limit < total)

\* C17: the total of a listKeys result is the number of rows matching the filters
\* when they are counted; total_pages = ceil(total / limit), has_next = (page <
\* total_pages), has_previous = (page > 1); and the number of items is min(limit,
\* max(0, total - (page-1)*limit)) when the same rows match at the fetch as at the
\* count.
C17_Step ==
    \A p \in Procs :
        LET query == loc[p].query
            matching == Cardinality(filteredKeys(apiKeys, loc[p].builtAt, query))
            plain == /\ query.status = NoText /\ query.search = NoText
                     /\ query.client_id = NoClient
        IN
        /\ (pc[p] = "count" /\ pc'[p] = "fetch") =>
            /\ loc'[p].total = matching
            /\ plain => loc'[p].total = Cardinality({i \in DOMAIN apiKeys :
                            query.include_deleted \/ ~Deleted(apiKeys[i])})
        /\ Lists(p) =>
            LET pg == resp'.data.pagination IN
            /\ pg.total = loc[p].total
            /\ "page" \in query.provided /\ query.page >= 1 => pg.page = query.page
            /\ "limit" \in query.provided /\ query.limit \in 1 .. maxLimit
                   => pg.limit = query.limit
            /\ pg.total_pages = PagesNeeded(pg.total, pg.limit)
            /\ pg.has_next = (pg.page < pg.total_pages)
            /\ pg.has_previous = (pg.page > 1)
            /\ loc[p].total = matching
               => Len(resp'.data.keys)
                      = Min(pg.limit, Max(0, pg.total - (pg.page - 1) * pg.limit))

C17_Pagination == [][C17_Step]_vars

\* the second page of two keys, one key a page, was listed
C17_Witness ==
    /\ resp.op = "listKeys"
    /\ resp.data.pagination
          = [page |-> 2, limit |-> 1, total |-> 2, total_pages |-> 2,
             has_next |-> FALSE, has_previous |-> TRUE]
    /\ Len(resp.data.keys) = 1

\* C18: listKeys with status=expired returns only keys whose expiry_date <= now, and
\* listKeys returns no key with deleted_at set unless include_deleted is true; a
\* key's deleted_at, once set, stays set, so a removed key appears in no later
\* listing that omits include_deleted.
C18_Step ==
    /\ \A p \in Procs :
        Lists(p) =>
            LET query == loc[p].query IN
            \A k \in DOMAIN resp'.data.keys :
                LET item == resp'.data.keys[k] IN
                /\ query.status = "expired"
                       => item.expires_at <= now /\ apiKeys[item.id].expiry_date <= now
                /\ ~query.include_deleted
                       => item.deleted_at = NoDate /\ ~Deleted(apiKeys[item.id])
    /\ \A i \in DOMAIN apiKeys :
        Deleted(apiKeys[i]) => (i \in DOMAIN apiKeys' /\ Deleted(apiKeys'[i]))

C18_ListingFilters == [][C18_Step]_vars

\* after the only key was removed, a listing returned no key
C18_Witness ==
    /\ resp.op = "listKeys"
    /\ Len(apiKeys) = 1
    /\ Deleted(apiKeys[1])
    /\ resp.data.keys = <<>>
    /\ resp.data.pagination.total = 0

\* C19 (as claimed): listKeys with status = s, for s in active, inactive, expired,
\* deleted, returns exactly the keys whose derived status is s among those passing
\* the other filters.
C19_Step ==
    \A p \in Procs :
        (Lists(p) /\ now = loc[p].builtAt
         /\ loc[p].query.status \in {"active", "inactive", "expired", "deleted"})
        => LET query == loc[p].query IN
           /\ filteredKeys(apiKeys, now, query)
                 = {i \in filteredKeys(apiKeys, now, [query EXCEPT !.status = NoText]) :
                       listStatus(apiKeys[i], now) = query.status}
           /\ \A k \in DOMAIN resp'.data.keys :
                 resp'.data.keys[k].status = query.status

C19_StatusFilterIsDerivedStatus == [][C19_Step]_vars

\* C20: updateApiKey fails with MISSING_UPDATE_FIELDS when no field is given, with
\* KEY_NOT_FOUND when no row has the id, with INVALID_EXPIRY_DATE or EXPIRY_DATE_PAST
\* when expires_at is malformed or not strictly in the future, each time leaving the
\* store unchanged; on success exactly the supplied fields and updated_by of that one
\* row change.
C20_Step ==
    /\ (resp' # resp /\ resp' = Fail("updateApiKey", "MISSING_UPDATE_FIELDS", BAD_REQUEST))
        => Called /\ apiKeys' = apiKeys
    /\ \A p \in Procs :
        (Moves(p) /\ loc[p].op = "updateApiKey") =>
            LET id == loc[p].id
                dto == loc[p].dto
                exp == "expires_at" \in dto.provided
                failed(code, http) ==
                    /\ pc'[p] = "done"
                    /\ resp' = Fail("updateApiKey", code, http)
                    /\ apiKeys' = apiKeys
            IN  /\ dto.provided # {}
                /\ saInfo' = saInfo
                /\ pc[p] = "findKey" =>
                    IF id \notin DOMAIN apiKeys THEN failed("KEY_NOT_FOUND", NOT_FOUND)
                    ELSE IF exp /\ dto.expires_at = InvalidDate
                    THEN failed("INVALID_EXPIRY_DATE", BAD_REQUEST)
                    ELSE IF exp /\ dto.expires_at <= now
                    THEN failed("EXPIRY_DATE_PAST", BAD_REQUEST)
                    ELSE pc'[p] = "updateKey" /\ apiKeys' = apiKeys
                /\ pc[p] = "updateKey" =>
                    /\ pc'[p] = "refetchKey"
                    /\ Len(apiKeys') = Len(apiKeys)
                    /\ \A j \in DOMAIN apiKeys : j # id => apiKeys'[j] = apiKeys[j]
                    /\ apiKeys'[id]
                          = [apiKeys[id] EXCEPT
                               !.name = IF "name" \in dto.provided THEN dto.name ELSE @,
                               !.description = IF "description" \in dto.provided
                                               THEN dto.description ELSE @,
                               !.is_active = IF "is_active" \in dto.provided
                                             THEN dto.is_active ELSE @,
                               !.expiry_date = IF exp THEN dto.expires_at ELSE @,
                               !.updated_by = "key-manager-service"]
                /\ pc[p] = "refetchKey" =>
                    /\ pc'[p] = "done" /\ resp'.success /\ resp'.op = "updateApiKey"
                    /\ resp'.data.key_id = id
                    /\ apiKeys' = apiKeys

C20_UpdateContract == [][C20_Step]_vars

\* a key was renamed and nothing else of it changed
C20_Witness ==
    /\ resp.op = "updateApiKey" /\ resp.success
    /\ nops = 2
    /\ Len(apiKeys) = 1
    /\ apiKeys[1].name = NameSeq[2]
    /\ apiKeys[1].updated_by = "key-manager-service"
    /\ apiKeys[1].is_active
    /\ apiKeys[1].description = "Generated API key for client 1"

\* the codes of the validation errors: a malformed or past expires_at, no field to
\* update, no key id
ValidationErrors ==
    {"INVALID_EXPIRY_DATE", "EXPIRY_DATE_PAST", "MISSING_UPDATE_FIELDS", "MISSING_KEY_ID"}

\* C21 (as claimed): a createApiKey, updateApiKey or removeKey request that ends in a
\* validation error is rejected at its call, before it awaits any store call.
C21_Step ==
    \A p \in Procs :
        (Answers(p) /\ loc[p].op \in {"createApiKey", "updateApiKey", "removeKey"})
        => resp'.code \notin ValidationErrors

C21_ValidationBeforeStoreIO == [][C21_Step]_vars

\* what one step does to the stored credentials: every row stays, with its api_key
\* and client_id, and every service account with its id and client_secret
CredentialsKept ==
    /\ Len(apiKeys') >= Len(apiKeys)
    /\ Len(saInfo') >= Len(saInfo)
    /\ \A i \in DOMAIN apiKeys :
        /\ apiKeys'[i].api_key = apiKeys[i].api_key
        /\ apiKeys'[i].client_id = apiKeys[i].client_id
    /\ \A i \in DOMAIN saInfo :
        /\ saInfo'[i].id = saInfo[i].id
        /\ saInfo'[i].client_secret = saInfo[i].client_secret

\* C22: no createApiKey, updateApiKey, removeKey, validateKey or listKeys call
\* changes the api_key or client_id of a stored ApiKey row, or the id or
\* client_secret of a stored ServiceAccount row.
C22_CredentialsImmutable == [][CredentialsKept]_vars

\* a key was created, then updated, then removed, and holds its token and owner
C22_Witness ==
    /\ resp.op = "removeKey" /\ resp.success
    /\ apiKeys[1].description = "d"
    /\ apiKeys[1].api_key = TokenSeq[1]
    /\ apiKeys[1].client_id = saInfo[1].id
    /\ saInfo[1].client_secret = SecretSeq[1]

\* apiKeyRepository.find answers the validateKey request of p in this step
Validates(p) == pc[p] = "findKeys" /\ Answers(p) /\ loc[p].op = "validateKey"

\* the active rows of the account the request of p authenticated as that hold the
\* api_key it presents
OwnMatches(p) ==
    {i \in DOMAIN apiKeys :
        /\ apiKeys[i].is_active
        /\ apiKeys[i].client_id = loc[p].acct.id
        /\ apiKeys[i].api_key = loc[p].keyToValidate}

\* C23: a validateKey request that has passed client authentication as account B and
\* presents an active, unexpired raw key of another account A, no active key of B
\* holding that value, answers KEY_NOT_FOUND (404) when the key lookup answers: the
\* lookup is scoped to the presented client_id.
C23_Step ==
    \A p \in Procs :
        (/\ Validates(p)
         /\ OwnMatches(p) = {}
         /\ \E k \in DOMAIN apiKeys :
                /\ apiKeys[k].api_key = loc[p].keyToValidate
                /\ apiKeys[k].client_id # loc[p].acct.id
                /\ apiKeys[k].is_active /\ apiKeys[k].expiry_date > now)
        => resp' = ValidationFailed("KEY_NOT_FOUND", NOT_FOUND)

C23_KeyScopedToAccount == [][C23_Step]_vars

\* the second account has authenticated and presents the valid key of the first
C23_Witness ==
    /\ pc[1] = "findKeys" /\ loc[1].op = "validateKey"
    /\ Len(saInfo) = 2
    /\ loc[1].acct = saInfo[2]
    /\ \E k \in DOMAIN apiKeys :
        /\ apiKeys[k].api_key = loc[1].keyToValidate
        /\ apiKeys[k].client_id = saInfo[1].id
        /\ apiKeys[k].is_active /\ ~Deleted(apiKeys[k]) /\ apiKeys[k].expiry_date > now

\* an active key, were its expiry_date null, is valid when presented for its account
\* and met first by the scan, whatever the order find answers in
C24_State ==
    \A k \in DOMAIN apiKeys :
        LET keys == [apiKeys EXCEPT ![k].expiry_date = NoDate] IN
        \A found \in findAnswers(keys, keys[k].client_id) :
        LET v == validateApiKey(keys, now, keys[k].api_key, keys[k].client_id, found)
        IN  (keys[k].is_active /\ keyRecord(found, keys, keys[k].api_key) = k)
            => /\ v.isValid
               /\ v.keyInfo.id = keys[k].id
               /\ v.keyInfo.expiresAt = NoDate

\* C24: for a validateKey request that has passed client authentication and matches
\* one active key of that client when the key lookup answers: a key without
\* expiry_date is valid, a key whose expiry_date is before or equal to now gives
\* KEY_EXPIRED (401), and otherwise the result is KEY_VALID with the key's id, the
\* owner's user_id, the client_id, the expiry_date and the status.
C24_Step ==
    \A p \in Procs : \A k \in DOMAIN apiKeys :
        (Validates(p) /\ OwnMatches(p) = {k}) =>
            IF apiKeys[k].expiry_date # NoDate /\ apiKeys[k].expiry_date <= now
            THEN resp' = ValidationFailed("KEY_EXPIRED", UNAUTHORIZED)
            ELSE resp' = Success("validateKey", "KEY_VALID",
                             [key_id |-> apiKeys[k].id,
                              user_id |-> loc[p].acct.user_id,
                              client_id |-> apiKeys[k].client_id,
                              expires_at |-> apiKeys[k].expiry_date,
                              status |-> "active"])

C24_ExpiryDecidesValidity == []C24_State /\ [][C24_Step]_vars

\* a key that expires now was presented with its owner's credentials and refused
C24_Witness ==
    /\ resp = ValidationFailed("KEY_EXPIRED", UNAUTHORIZED)
    /\ pc[1] = "done"
    /\ \E k \in DOMAIN apiKeys :
        /\ apiKeys[k].is_active
        /\ apiKeys[k].expiry_date = now
        /\ SaById(saInfo, apiKeys[k].client_id) # NoRow

\* C25: no validateKey request answers KEY_INACTIVE; when the key lookup answers, a
\* presented key whose rows under the account are all inactive (after updateApiKey
\* set is_active to false, say) gives KEY_NOT_FOUND (404), and one whose row is
\* active (is_active set back to true) and unexpired is valid.
C25_Step ==
    /\ resp'.code # "KEY_INACTIVE"
    /\ \A p \in Procs :
        Validates(p) =>
            /\ OwnMatches(p) = {} => resp' = ValidationFailed("KEY_NOT_FOUND", NOT_FOUND)
            /\ \A k \in DOMAIN apiKeys :
                (OwnMatches(p) = {k} /\ apiKeys[k].expiry_date > now)
                => resp'.success /\ resp'.data.key_id = k

C25_InactiveIsNotFound == [][C25_Step]_vars

\* the only key is inactive after an update, and a validation with accepted client
\* credentials found no key
C25_Witness ==
    /\ resp = ValidationFailed("KEY_NOT_FOUND", NOT_FOUND)
    /\ Len(apiKeys) = 1
    /\ ~apiKeys[1].is_active
    /\ apiKeys[1].updated_by = "key-manager-service"

\* the listed keys come in the order of the column, descending or ascending
ListedInOrder(items, column, desc) ==
    \A i, j \in DOMAIN items :
        i < j => IF desc
                 THEN sortsNotAfter(apiKeys[items[j].id], apiKeys[items[i].id], column)
                 ELSE sortsNotAfter(apiKeys[items[i].id], apiKeys[items[j].id], column)

\* queries that name a sort column, of the allow-list or not, descending, and two of
\* them ascending
SortQueries ==
    {[DefaultQuery EXCEPT !.sort_by = sb] :
        sb \in allowedSortColumns \cup {"api_key", "client_id"}}
    \cup {[DefaultQuery EXCEPT !.sort_by = sb, !.sort_order = "ASC"] :
            sb \in {"name", "api_key"}}

\* the column a query is to be sorted by
SortColumn(query) ==
    IF query.sort_by \in {"created_at", "updated_at", "expiry_date", "name", "is_active"}
    THEN query.sort_by ELSE "created_at"

\* every order ORDER BY allows for the stored keys is an order of the column
C26_State ==
    \A query \in SortQueries :
        \A order \in sortedOrders(apiKeys, filteredKeys(apiKeys, now, query), query) :
            ListedInOrder([k \in DOMAIN order |-> apiKeys[order[k]]], SortColumn(query),
                          query.sort_order = NoText)

\* C26: a listKeys request whose sort_by is outside the allow-list {created_at,
\* updated_at, expiry_date, name, is_active} succeeds and lists the keys in the
\* order of created_at; one whose sort_by is inside it lists them in the order of
\* that column.
C26_Step ==
    \A p \in Procs :
        (pc[p] = "fetch" /\ Answers(p)) =>
            /\ resp'.op = "listKeys"
            /\ resp'.success
            /\ resp'.http = OK
            /\ ListedInOrder(resp'.data.keys, SortColumn(loc[p].query),
                             loc[p].query.sort_order = NoText)

C26_SortAllowList == []C26_State /\ [][C26_Step]_vars

\* a request sorted by api_key, a column outside the allow-list, awaits its rows
\* while two keys are stored
C26_Witness ==
    /\ pc[1] = "fetch"
    /\ loc[1].query.sort_by = "api_key"
    /\ Len(apiKeys) = 2
    /\ apiKeys[1].name # apiKeys[2].name

\* caller p has the loop of generateUniqueKey in flight: it awaits checkKeyExists or
\* the save that follows it
Generating(p) ==
    /\ pc[p] \in {"checkKey", "saveKey"}
    /\ loc[p].op \in {"createApiKey", "generateApiKey", "generateUniqueKey"}

\* C27 (as claimed): generateUniqueKey makes at most 3 attempts in total: the
\* existence check a generation awaits is its first, its second or its third.
C27_AtMostThreeChecks ==
    \A p \in Procs : Generating(p) => loc[p].attempt < 3

\* C28 (as claimed): with expires_at omitted or null the stored expiry_date is the
\* time of the save plus 365 days; every row createApiKey writes has an expiry_date
\* that is not null and is strictly after its created_at; and updateApiKey leaves no
\* row with a null expiry_date.
C28_Step ==
    /\ \A p \in Procs :
        (pc[p] = "saveKey" /\ Answers(p) /\ resp'.success /\ resp'.op = "createApiKey")
        => LET row == apiKeys'[Len(apiKeys')] IN
           /\ row.expiry_date # NoDate
           /\ row.expiry_date > row.created_at
           /\ loc[p].dto.expires_at = Absent => row.expiry_date = now + 365
    /\ \A k \in DOMAIN apiKeys :
        apiKeys[k].expiry_date # NoDate => apiKeys'[k].expiry_date # NoDate

C28_ExpiryAlwaysSet == [][C28_Step]_vars

\* C29: when a store call of the generator throws (the existence check, or the save
\* after a check that found nothing) no further token is drawn and no further store
\* call is made: the request ends there, createApiKey answers KEY_CREATION_ERROR
\* (500), and the api-key table is as it was.  A token is drawn again only after a
\* check that found the token stored.
C29_Step ==
    \A p \in Procs :
        (Generating(p) /\ Moves(p)) =>
            /\ pc[p] = "saveKey" => pc'[p] = "done"
            /\ pc'[p] = "checkKey"
               => /\ checkKeyExists(apiKeys, loc[p].rawKey)
                  /\ loc'[p].attempt = loc[p].attempt + 1
            /\ pc'[p] = "saveKey" => ~checkKeyExists(apiKeys, loc[p].rawKey)
            /\ (pc'[p] = "done" /\ ~resp'.success)
               => /\ apiKeys' = apiKeys
                  /\ loc[p].op = "createApiKey" => resp' = KeyCreationError
                  /\ loc[p].op = "generateApiKey" => resp'.op = "generateApiKey"

C29_StoreFailureNotRetried == [][C29_Step]_vars

\* a direct generation failed on a store call that threw, and no key is stored
C29_Witness ==
    /\ resp.op = "generateApiKey"
    /\ resp.code \in {storeCallError(call, storeFailure) :
                        call \in {"api_keys.findOne", "api_keys.save"}}
    /\ apiKeys = <<>>

\* C30: when a createApiKey request that saved a new service account fails in the
\* generation (the budget used up, the input refused, a store call throwing), the
\* account row stays as saved, with no ApiKey row; a later createApiKey request of
\* that owner finds that account, saves no other, and on success returns its
\* client_id and client_secret.
C30_Step ==
    \A p \in Procs :
        (Moves(p) /\ loc[p].op = "createApiKey") =>
            LET l == loc[p] IN
            /\ \A i \in DOMAIN saInfo : i \in DOMAIN saInfo' /\ saInfo'[i] = saInfo[i]
            /\ (pc'[p] = "done" /\ ~resp'.success /\ pc[p] # "findSa")
               => /\ resp' = KeyCreationError
                  /\ apiKeys' = apiKeys
                  /\ Generating(p) => saInfo' = saInfo
                  /\ l.saved # NoRow
                     => /\ saInfo[l.saved] = l.acct
                        /\ saInfo'[l.saved] = l.acct
            /\ (pc[p] = "findSa" /\ SaByUser(saInfo, l.dto.user_id) # {}
                /\ pc'[p] # "done")
               => /\ pc'[p] = "checkKey"
                  /\ saInfo' = saInfo
                  /\ loc'[p].acct.id \in SaByUser(saInfo, l.dto.user_id)
                  /\ loc'[p].acct = saInfo[loc'[p].acct.id]
                  /\ loc'[p].saved = NoRow
            /\ (pc[p] = "saveKey" /\ resp'.success /\ pc'[p] = "done")
               => /\ resp'.data.client_id = l.acct.id
                  /\ resp'.data.client_secret = l.acct.client_secret
                  /\ apiKeys'[Len(apiKeys')].client_id = l.acct.id

C30_NoRollbackOfAccount == [][C30_Step]_vars

\* the second owner's createApiKey request failed: their account is stored and no
\* key belongs to it
C30_Witness ==
    /\ resp = Fail("createApiKey", "KEY_CREATION_ERROR", INTERNAL_SERVER_ERROR)
    /\ Len(saInfo) = 2
    /\ Len(apiKeys) >= 1
    /\ \A k \in DOMAIN apiKeys : apiKeys[k].client_id = saInfo[1].id
    /\ ~Deleted(saInfo[2])

\* C31 (as claimed): once a key's deleted_at is set no step changes it or its
\* deleted_by, also when removeKey requests on one key interleave at their awaits;
\* and of two such requests that have returned at most one succeeded.
C31_DeletedAtWriteOnce ==
    /\ [](\A p, q \in Procs :
            (/\ p # q
             /\ pc[p] = "done" /\ pc[q] = "done"
             /\ loc[p].result.op = "removeKey" /\ loc[q].result.op = "removeKey"
             /\ loc[p].result.success /\ loc[q].result.success)
            => loc[p].result.data.key_id # loc[q].result.data.key_id)
    /\ [][\A k \in DOMAIN apiKeys :
            Deleted(apiKeys[k])
            => /\ apiKeys'[k].deleted_at = apiKeys[k].deleted_at
               /\ apiKeys'[k].deleted_by = apiKeys[k].deleted_by]_vars

\* C32: updateApiKey applied to a soft-deleted key with valid fields is not refused
\* for the deletion: it sets name, description, is_active and expiry_date as
\* requested, leaves deleted_at and deleted_by as they were, and reports the status
\* 'active' or 'inactive' from is_active alone.
C32_Step ==
    \A p \in Procs :
        (/\ Moves(p) /\ loc[p].op = "updateApiKey"
         /\ loc[p].id \in DOMAIN apiKeys /\ Deleted(apiKeys[loc[p].id])) =>
            LET id == loc[p].id
                dto == loc[p].dto
                row == apiKeys'[id]
                Requested(field, requested, stored) ==
                    IF field \in dto.provided THEN requested ELSE stored
            IN  /\ (/\ pc[p] = "findKey"
                    /\ "expires_at" \in dto.provided
                       => (dto.expires_at \notin {Absent, InvalidDate}
                           /\ dto.expires_at > now))
                   => pc'[p] = "updateKey"
                /\ pc[p] = "updateKey" =>
                    /\ pc'[p] = "refetchKey"
                    /\ row.name = Requested("name", dto.name, apiKeys[id].name)
                    /\ row.description = Requested("description", dto.description,
                                                   apiKeys[id].description)
                    /\ row.is_active = Requested("is_active", dto.is_active,
                                                 apiKeys[id].is_active)
                    /\ row.expiry_date = Requested("expires_at", dto.expires_at,
                                                   apiKeys[id].expiry_date)
                /\ row.deleted_at = apiKeys[id].deleted_at
                /\ row.deleted_by = apiKeys[id].deleted_by
                /\ pc[p] = "refetchKey" =>
                    /\ resp'.success
                    /\ resp'.data.status = (IF row.is_active THEN "active" ELSE "inactive")
                    /\ resp'.data.is_active = row.is_active

C32_UpdateIgnoresDeletion == [][C32_Step]_vars

\* an update has just succeeded on a key that was soft-deleted before it
C32_Witness ==
    /\ resp.op = "updateApiKey"
    /\ resp.success
    /\ \E k \in DOMAIN apiKeys :
        /\ Deleted(apiKeys[k])
        /\ resp.data.key_id = apiKeys[k].id
        /\ apiKeys[k].updated_by = "key-manager-service"

\* the handler whose request caller p has in flight, or has just had answered
OpOf(p) ==
    IF pc'[p] = "done" THEN loc'[p].result.op
    ELSE IF pc'[p] = "idle" THEN "none"
    ELSE loc'[p].op

\* C33: a step of validateKey, validateApiKey or listKeys, the call or a store call
\* answering or rejecting, whatever the arguments and the outcome, leaves every
\* service account row and every key row as it was; a key found expired by the read
\* stays stored as it is.
C33_Step ==
    \A p \in Procs :
        (/\ pc'[p] # pc[p] \/ loc'[p] # loc[p]
         /\ OpOf(p) \in {"validateKey", "validateApiKey", "listKeys"})
        => (saInfo' = saInfo /\ apiKeys' = apiKeys)

C33_ReadsChangeNothing == [][C33_Step]_vars

\* a validation has just reported a key expired, and the key is still stored,
\* active and not deleted
C33_Witness ==
    /\ resp.op = "validateKey"
    /\ resp.code = "KEY_EXPIRED"
    /\ \E k \in DOMAIN apiKeys :
        /\ apiKeys[k].is_active
        /\ ~Deleted(apiKeys[k])
        /\ apiKeys[k].expiry_date <= now

\* C34 (as claimed): every failure result of validateApiKey, the one for an empty
\* api_key included, carries a status code from 401, 403, 404 and 500: KEY_NOT_FOUND
\* 404, KEY_INACTIVE 403, KEY_EXPIRED 401, VALIDATION_ERROR 500.
C34_FailureStatusCodes ==
    LET FailureStatus ==
            [KEY_NOT_FOUND |-> NOT_FOUND, KEY_INACTIVE |-> FORBIDDEN,
             KEY_EXPIRED |-> UNAUTHORIZED, VALIDATION_ERROR |-> INTERNAL_SERVER_ERROR]
        StatusCodeExpected(reason, statusCode) ==
            /\ statusCode \in {UNAUTHORIZED, FORBIDDEN, NOT_FOUND, INTERNAL_SERVER_ERROR}
            /\ reason \in DOMAIN FailureStatus => statusCode = FailureStatus[reason]
    IN  (resp.op = "validateApiKey" /\ ~resp.success)
        => StatusCodeExpected(resp.code, resp.http)

\* the audit records of the generator among events: the logKeyGeneration records
\* and the collision lines
Records(events) ==
    SelectSeq(events,
              LAMBDA e : e.message \in {"Key generation operation",
                                        "Key collision detected, retrying"})

FieldNames(event) == {field[1] : field \in event.fields}

\* C35 (as claimed): when a store call of generateUniqueKey answers or rejects, the
\* attempt it ends emits one audit record (a collision or the outcome of the
\* attempt), one more follows when the budget is exhausted, and every record
\* carries the attempt count and the outcome (a result, or the collision its line
\* reports).
C35_OneRecordPerAttempt ==
    \A p \in Procs :
        Generating(p) =>
            \A events \in AnswerEvents(p) \cup {RejectEvents(p)} :
                LET records == Records(events) IN
                /\ pc[p] = "saveKey" => Len(records) = 1
                /\ \A i \in DOMAIN records :
                    /\ "attempt" \in FieldNames(records[i])
                    /\ \/ "result" \in FieldNames(records[i])
                       \/ records[i].message = "Key collision detected, retrying"

\* the text holds every character of the key, in order
Contains(text, key) ==
    LET chars == Characters(key) IN
    \E i \in 1 .. (Len(text) - Len(chars) + 1) :
        SubSeq(text, i, i + Len(chars) - 1) = chars

\* the field of an event shows characters of an api_key value
RefersToKey(field) == \E j \in DOMAIN field[2] : field[2][j][2] # 0

\* the api_key values a caller presents: raw keys, and strings that are none
PresentedKeys == Tokens \cup {ShortKey, BlankKey, EmptyKey}

\* a field of the events that shows characters of an api_key value holds no whole
\* raw key: it is the first 8 characters of a presented value, followed by the mask
\* marker (a field that shows no character of a key holds none)
Masked(events) ==
    \A k \in DOMAIN events : \A field \in events[k].fields :
        RefersToKey(field)
        => /\ \A key \in Tokens : ~Contains(field[2], key)
           /\ \E key \in PresentedKeys :
                LET chars == Characters(key) IN
                field[2] = [i \in 1 .. Min(PrefixLength, Len(chars)) |-> chars[i]]
                           \o MaskMarker

\* C36: no log or audit event of createApiKey, validateKey, updateApiKey, removeKey,
\* listKeys, the generation service or the validation service holds a whole raw
\* api_key value; where an event refers to a key it shows the first 8 characters of
\* the value presented, followed by the mask marker '***'.
C36_NoRawKeyLogged ==
    \A p \in Procs :
        IF ~Ready(p)
        THEN \* the store call the request awaits answers or rejects
             \A events \in AnswerEvents(p) \cup {RejectEvents(p)} : Masked(events)
        ELSE \* the caller makes a call
             /\ \A dto \in OwnerDtos(saInfo, now) :
                    Masked(createApiKeyCalledEvents(dto, now))
             /\ \A dto \in ValidateDtos(saInfo, apiKeys) :
                    Masked(validateKeyCalledEvents(dto))
             /\ \A id \in KeyIds :
                    /\ \A dto \in UpdateDtos(now) :
                        Masked(keyCalledEvents("updateApiKey", id, dto))
                    /\ Masked(keyCalledEvents("removeKey", id, <<>>))
             /\ \A query \in ListQueries(saInfo) : Masked(listKeysCalledEvents(query))
             /\ \A params \in GenerationParams(saInfo, now) :
                    \A op \in {"generateApiKey", "generateUniqueKey"} :
                        Masked(generatorCalledEvents(config, now, op, params))
             /\ \A newConfig \in ConfigInputs : Masked(updateConfigEvents(newConfig))

\* a validation of a stored raw key awaits find, and the event of its answer shows
\* characters of the key: the key is stored for another account
C36_Witness ==
    /\ pc[1] = "findKeys"
    /\ loc[1].keyToValidate \in StoredTokens(apiKeys)
    /\ \E events \in AnswerEvents(1) :
        \E k \in DOMAIN events : \E field \in events[k].fields : RefersToKey(field)
====
